---- MODULE Spec2Model ----
(***************************************************************************)
(* A model of the General Game Playing agent: immutable game states        *)
(* (ggp/gamestate.py), the search players and the scoped alarm timer       *)
(* (ggp/players.py) and the serial message handler of the player server    *)
(* (pygdl/playerserver.py).                                                *)
(***************************************************************************)
EXTENDS Integers, Sequences, FiniteSets, TLC

VARIABLES
    heap,          \* GeneralGameState objects allocated so far
    heap_raised,   \* exception raised by the last state operation, or "none"
    search_state,  \* the game state the search players start from
    own_order,     \* the order random.shuffle leaves own_moves in
    root_matters,  \* score_matters of the root call
    search_role,   \* the role the search player plays
    mm_result,     \* result of Minimax from the root
    ab_result,     \* result of AlphaBeta from the root
    game_players,  \* handler.game_players: game id -> player object id
    objs,          \* player objects ever constructed: id -> fields
    created,       \* number of player objects constructed so far
    running,       \* the HTTP server loop is still serving
    last_msg,      \* the message handled by the last request
    response,      \* status code and body sent for the last request
    trace,         \* calls the handler made while handling the last request
    ended,         \* game ids whose player was discarded by stop or abort
    player,        \* a player object driven directly through its four operations
    player_op,     \* the player operation performed last and its outcome
    alarm_active,  \* AlarmContextManager.alarm_active (class attribute)
    sigalrm,       \* the installed SIGALRM handler
    alarm,         \* seconds left on the process alarm, 0 when none is pending
    managers,      \* AlarmContextManager objects: fields and position
    scopes,        \* stack of managers whose with-block is open
    alarm_event,   \* what the last timer step did
    gdl            \* a GDL statement and what the translations made of it

vars == <<heap, heap_raised, search_state, own_order, root_matters, search_role, mm_result,
          ab_result, game_players, objs, created, running, last_msg, response, trace,
          ended, player, player_op, alarm_active, sigalrm, alarm, managers,
          scopes, alarm_event, gdl>>

state_vars == <<heap, heap_raised>>
search_vars == <<search_state, own_order, root_matters, search_role, mm_result, ab_result>>
server_vars == <<game_players, objs, created, running, last_msg, response, trace, ended>>
player_vars == <<player, player_op>>
alarm_vars == <<alarm_active, sigalrm, alarm, managers, scopes, alarm_event>>
gdl_vars == <<gdl>>

(***************************************************************************)
(* Bounds of the model.                                                    *)
(***************************************************************************)
MaxHeap == 4
MaxCreated == 2
MaxTurn == 2
MaxSeconds == 2
MaxManagers == 2
MaxSearches == 2
MaxSeen == 2
MaxArgs == 2
MaxBody == 3

(***************************************************************************)
(* Small helpers.                                                          *)
(***************************************************************************)
Range(f) == {f[i] : i \in DOMAIN f}

Cons(x, s) == <<x>> \o s

Reverse(s) == [i \in 1..Len(s) |-> s[Len(s) + 1 - i]]

(***************************************************************************)
(* Games.  A game is the rule set the start message carries; the reasoner  *)
(* (ggp_state.pl) answers role, init, legal, next, goal and terminal for   *)
(* it.  Two rule sets are used: buttons-and-lights, the single-role game   *)
(* of the test suite, and a two-role simultaneous-move game of depth two   *)
(* whose payoffs are a parameter.                                          *)
(***************************************************************************)
ButtonsAndLights == [name |-> "buttonsandlights", kids |-> <<>>]

\* A child of the root: terminal with payoff u, or one more turn for white
\* with payoffs leaves[1] (after l) and leaves[2] (after r).
Kid(term, u, leaves) == [term |-> term, u |-> u, leaves |-> leaves]

TreeGame(k1, k2, k3, k4) ==
    [name |-> "tree", kids |-> [lx |-> k1, ly |-> k2, rx |-> k3, ry |-> k4]]

SampleTree ==
    TreeGame(Kid(FALSE, 0, <<50, 100>>), Kid(TRUE, 50, <<0, 0>>),
             Kid(TRUE, 100, <<0, 0>>), Kid(FALSE, 0, <<0, 50>>))

\* the two-role game with a second goal rule for each role: goal(white, V)
\* also holds for 100 minus the payoff, goal(black, V) also for the payoff
ManyGoals == [name |-> "manygoals", kids |-> SampleTree.kids]

StepNames == <<"1", "2", "3", "4", "5", "6", "7">>

\* GeneralGame.max_utility / min_utility
max_utility == 100
min_utility == 0

\* GeneralGame.roles: solutions of role(R), in rule order
roles(g) ==
    IF g.name = "buttonsandlights" THEN <<"robot">> ELSE <<"white", "black">>

InitTruth(g) ==
    IF g.name = "buttonsandlights" THEN {"1"} ELSE {"root"}

TreePos(truth) == CHOOSE p \in truth : TRUE

TreeIsLeaf(g, truth) ==
    LET p == TreePos(truth)
    IN  /\ p # "root"
        /\ \/ Len(p) = 3
           \/ g.kids[p].term

\* terminal/0 under the truth set
Terminal(g, truth) ==
    IF g.name = "buttonsandlights" THEN "7" \in truth ELSE TreeIsLeaf(g, truth)

\* a rule set that leaves black without a legal action below the root
Legal_unplayable(g, truth, role) ==
    IF g.name = "buttonsandlights"
    THEN IF role = "robot" THEN <<"a", "b", "c">> ELSE <<>>
    ELSE IF TreeIsLeaf(g, truth) THEN <<>>
         ELSE IF role = "white" THEN <<"l", "r">>
         ELSE IF role = "black" /\ TreePos(truth) = "root" THEN <<"x", "y">>
         ELSE <<>>

\* solutions of legal(role, A) under the truth set, in rule order
Legal(g, truth, role) ==
    IF g.name = "buttonsandlights"
    THEN IF role = "robot" THEN <<"a", "b", "c">> ELSE <<>>
    ELSE IF TreeIsLeaf(g, truth) THEN <<>>
         ELSE IF role = "white" THEN <<"l", "r">>
         ELSE IF role = "black"
              THEN IF TreePos(truth) = "root" THEN <<"x", "y">> ELSE <<"n">>
              ELSE <<>>

TreePayoff(g, p) ==
    IF p = "root" THEN 50
    ELSE IF Len(p) = 2
         THEN IF g.kids[p].term THEN g.kids[p].u ELSE 50
         ELSE LET kid == g.kids[SubSeq(p, 1, 2)]
              IN  IF SubSeq(p, 3, 3) = "l" THEN kid.leaves[1] ELSE kid.leaves[2]

\* solutions of goal(role, V) under the truth set, in rule order
Goal(g, truth, role) ==
    IF g.name = "buttonsandlights"
    THEN IF role # "robot" THEN <<>>
         ELSE IF {"p", "q", "r"} \subseteq truth THEN <<100>> ELSE <<0>>
    ELSE LET payoff == TreePayoff(g, TreePos(truth))
             second(V) == IF g.name = "manygoals" THEN <<V>> ELSE <<>>
         IN  IF role = "white" THEN <<payoff>> \o second(100 - payoff)
             ELSE IF role = "black" THEN <<100 - payoff>> \o second(payoff)
             ELSE <<>>

\* { p : next(p) } under the truth set and the joint move (does/2)
NextTruth(g, truth, does) ==
    IF g.name = "buttonsandlights"
    THEN LET a == does["robot"]
             p == "p" \in truth
             q == "q" \in truth
             r == "r" \in truth
         IN  {StepNames[i + 1] : i \in {j \in 1..6 : StepNames[j] \in truth}}
             \cup (IF (a = "a" /\ ~p) \/ (a = "b" /\ q) \/ (a = "c" /\ p)
                   THEN {"p"} ELSE {})
             \cup (IF (a = "a" /\ q) \/ (a = "b" /\ p) \/ (a = "c" /\ r)
                   THEN {"q"} ELSE {})
             \cup (IF (a = "a" /\ r) \/ (a = "b" /\ r) \/ (a = "c" /\ q)
                   THEN {"r"} ELSE {})
    ELSE IF TreePos(truth) = "root"
         THEN {does["white"] \o does["black"]}
         ELSE {TreePos(truth) \o does["white"]}

(***************************************************************************)
(* GeneralGameState (ggp/gamestate.py).  A state object holds three term   *)
(* records: the move history and the truth history, newest first, and the  *)
(* final truth state.                                                      *)
(***************************************************************************)
\* GeneralGameState.__init__ with the defaults: the initial state
initial_state(g) ==
    [game |-> g,
     move_history |-> <<>>,
     truth_history |-> <<InitTruth(g)>>,
     truth_state |-> InitTruth(g)]

\* the length of the truth history instead of the move history
turn_number_of_truth_history(s) == Len(s.truth_history)

turn_number(s) == Len(s.move_history)

\* the first solution of goal(role, V); check=True raises when there is none
utility_raises(s, role) == Goal(s.game, s.truth_state, role) = <<>>

\* utility that takes the largest of the solutions
utility_of_largest_solution(s, role) ==
    CHOOSE V \in Range(Goal(s.game, s.truth_state, role)) :
        \A W \in Range(Goal(s.game, s.truth_state, role)) : W <= V

utility(s, role) == Goal(s.game, s.truth_state, role)[1]

legal_actions(s, role) == Legal(s.game, s.truth_state, role)

state_propositions(s) == s.truth_state

is_terminal(s) == Terminal(s.game, s.truth_state)

\* prepare_moves/3 succeeds when the move list holds one does/2 per role
prepare_moves_ok(g, moves) == DOMAIN moves = Range(roles(g))

prepare_moves(g, moves) == [i \in 1..Len(roles(g)) |-> moves[roles(g)[i]]]

\* truth_history/4 succeeds when every action is legal for its role
truth_history_ok(s, moves) ==
    \A role \in DOMAIN moves : moves[role] \in Range(legal_actions(s, role))

\* apply_moves that checks only the roles of the joint move
apply_moves_raises_on_roles_only(s, moves) == ~prepare_moves_ok(s.game, moves)

apply_moves_raises(s, moves) ==
    \/ ~prepare_moves_ok(s.game, moves)
    \/ ~truth_history_ok(s, moves)

apply_moves(s, moves) ==
    LET new_truth_state == NextTruth(s.game, s.truth_state, moves)
    IN  [game |-> s.game,
         move_history |-> Cons(prepare_moves(s.game, moves), s.move_history),
         truth_history |-> Cons(new_truth_state, s.truth_history),
         truth_state |-> new_truth_state]

\* what a caller can see of a state object
Observe(s) ==
    [turn_number |-> turn_number(s),
     utility |-> [r \in Range(roles(s.game)) |-> utility(s, r)],
     legal_actions |-> [r \in Range(roles(s.game)) |-> Range(legal_actions(s, r))],
     state_propositions |-> state_propositions(s),
     is_terminal |-> is_terminal(s)]

\* joint moves offered to apply_moves: well formed, with an unknown action,
\* with a role missing, and with a role the game does not have
MoveSets(g) ==
    IF g.name = "buttonsandlights"
    THEN {[r \in {"robot"} |-> a] : a \in {"a", "b", "c", "z"}}
         \cup {[r \in {"robot", "ghost"} |-> "a"]}
    ELSE {[r \in {"white", "black"} |-> IF r = "white" THEN w ELSE b] :
              w \in {"l", "r"}, b \in {"x", "y", "n"}}
         \cup {[r \in {"white"} |-> "l"]}

\* s.apply_moves(moves) on the object at address i
ApplyMovesInPlace(i, moves) ==
    /\ i \in DOMAIN heap
    /\ Len(heap) < MaxHeap
    /\ IF apply_moves_raises(heap[i], moves)
       THEN /\ heap_raised' = "ValueError"
            /\ heap' = heap
       ELSE /\ heap_raised' = "none"
            /\ heap' = Append([heap EXCEPT ![i] = apply_moves(heap[i], moves)],
                              apply_moves(heap[i], moves))

ApplyMoves(i, moves) ==
    /\ i \in DOMAIN heap
    /\ Len(heap) < MaxHeap
    /\ IF apply_moves_raises(heap[i], moves)
       THEN /\ heap_raised' = "ValueError"
            /\ heap' = heap
       ELSE /\ heap_raised' = "none"
            /\ heap' = Append(heap, apply_moves(heap[i], moves))

StateInit ==
    /\ heap \in {<<initial_state(ButtonsAndLights)>>, <<initial_state(SampleTree)>>,
                 <<initial_state(ManyGoals)>>}
    /\ heap_raised = "none"

StateIdle ==
    /\ heap = <<>>
    /\ heap_raised = "none"

StateNext ==
    \E i \in DOMAIN heap : \E moves \in MoveSets(heap[i].game) :
        ApplyMoves(i, moves)

(***************************************************************************)
(* Minimax and AlphaBeta (ggp/players.py).  The search is a max step over  *)
(* the own moves around a min step over the product of the other roles'    *)
(* moves.  A result carries the score (none when the search returned None),*)
(* the move sequence, the number of states the search was called on, and  *)
(* the exception that ended it ("none" when it returned).                  *)
(***************************************************************************)
SearchResult(none, score, moves, calls) ==
    [none |-> none, score |-> score, moves |-> moves, calls |-> calls, raised |-> "none"]

\* a failed assert statement of the search
AssertionFailed(calls) ==
    [none |-> FALSE, score |-> 0, moves |-> <<>>, calls |-> calls, raised |-> "AssertionError"]

\* Minimax.__init__: the roles other than the own one, in roles() order
other_roles(g, role) == SelectSeq(roles(g), LAMBDA r : r # role)

\* random.shuffle(own_moves): the permutation is an input of the search
shuffle(order, moves) == IF order = "fwd" THEN moves ELSE Reverse(moves)

\* itertools.product: the last list varies fastest
RECURSIVE product(_)
product(lists) ==
    IF lists = <<>> THEN << <<>> >>
    ELSE LET rest == product(Tail(lists))
             h == Head(lists)
             n == Len(rest)
         IN  [k \in 1..(Len(h) * n) |->
                 Cons(h[((k - 1) \div n) + 1], rest[((k - 1) % n) + 1])]

\* dict(other_roles_moves + ((self.role, own_move),))
moves_dict(pairs) ==
    [r \in {pairs[i][1] : i \in DOMAIN pairs} |->
        pairs[CHOOSE i \in DOMAIN pairs :
                 /\ pairs[i][1] = r
                 /\ \A j \in DOMAIN pairs : pairs[j][1] = r => j <= i][2]]

Minimax_min_step_break(score, max_step_score) == score = min_utility

Minimax_max_step_break(score, min_step_score) == score = max_utility

AlphaBeta_min_step_break_flipped(score, max_step_score) ==
    \/ score = min_utility
    \/ score >= max_step_score

AlphaBeta_min_step_break(score, max_step_score) ==
    \/ score = min_utility
    \/ score <= max_step_score

AlphaBeta_max_step_break(score, min_step_score) ==
    \/ score = max_utility
    \/ score >= min_step_score

min_step_break(cls, score, max_step_score) ==
    IF cls = "AlphaBeta" THEN AlphaBeta_min_step_break(score, max_step_score)
    ELSE Minimax_min_step_break(score, max_step_score)

max_step_break(cls, score, min_step_score) ==
    IF cls = "AlphaBeta" THEN AlphaBeta_max_step_break(score, min_step_score)
    ELSE Minimax_max_step_break(score, min_step_score)

\* the search player: class, own role, shuffle order
Searcher(cls, role, order) == [cls |-> cls, role |-> role, order |-> order]

RECURSIVE score_estimate_and_move_sequence(_, _, _, _, _)
RECURSIVE max_step(_, _, _, _, _, _, _, _, _)
RECURSIVE min_step(_, _, _, _, _, _, _, _, _, _)

\* the loop over the other roles' moves with score_matters=False passed on
\* to the recursive calls
min_step_passing_false(self, game_state, own_move, joint, j, depth, max_step_score, min_step_score, min_moves, calls) ==
    IF j > Len(joint) THEN SearchResult(FALSE, min_step_score, min_moves, calls)
    ELSE LET moves == moves_dict(joint[j] \o << <<self.role, own_move>> >>)
         IN  CHOOSE result \in
                 {LET lower == sub.score < min_step_score
                      new_score == IF lower THEN sub.score ELSE min_step_score
                      new_moves == IF lower THEN Cons(moves, sub.moves) ELSE min_moves
                  IN  IF sub.raised # "none" THEN sub
                      ELSE IF sub.score < min_utility \/ sub.score > max_utility
                      THEN AssertionFailed(calls + sub.calls)
                      ELSE IF min_step_break(self.cls, sub.score, max_step_score)
                      THEN SearchResult(FALSE, new_score, new_moves, calls + sub.calls)
                      ELSE min_step(self, game_state, own_move, joint, j + 1, depth,
                                    max_step_score, new_score, new_moves,
                                    calls + sub.calls)
                  : sub \in {score_estimate_and_move_sequence(
                                 self, apply_moves(game_state, moves), FALSE, depth + 1,
                                 min_step_score)}} : TRUE

\* the loop over itertools.product(*other_roles_move_lists), from index j
min_step(self, game_state, own_move, joint, j, depth, max_step_score, min_step_score, min_moves, calls) ==
    IF j > Len(joint) THEN SearchResult(FALSE, min_step_score, min_moves, calls)
    ELSE LET moves == moves_dict(joint[j] \o << <<self.role, own_move>> >>)
         IN  CHOOSE result \in
                 {LET lower == sub.score < min_step_score
                      new_score == IF lower THEN sub.score ELSE min_step_score
                      new_moves == IF lower THEN Cons(moves, sub.moves) ELSE min_moves
                  IN  IF sub.raised # "none" THEN sub
                      ELSE IF sub.score < min_utility \/ sub.score > max_utility
                      THEN AssertionFailed(calls + sub.calls)
                      ELSE IF min_step_break(self.cls, sub.score, max_step_score)
                      THEN SearchResult(FALSE, new_score, new_moves, calls + sub.calls)
                      ELSE min_step(self, game_state, own_move, joint, j + 1, depth,
                                    max_step_score, new_score, new_moves,
                                    calls + sub.calls)
                  : sub \in {score_estimate_and_move_sequence(
                                 self, apply_moves(game_state, moves), TRUE, depth + 1,
                                 min_step_score)}} : TRUE

\* the loop over own_moves, from index i
max_step(self, game_state, own_moves, joint, i, depth, prev_min_step_score, max_step_score, max_moves) ==
    IF i > Len(own_moves) THEN SearchResult(FALSE, max_step_score, max_moves, 0)
    ELSE CHOOSE result \in
             {LET higher == m.score > max_step_score
                  new_score == IF higher THEN m.score ELSE max_step_score
                  new_moves == IF higher THEN m.moves ELSE max_moves
              IN  IF m.raised # "none" THEN m
                  ELSE IF max_step_break(self.cls, new_score, prev_min_step_score)
                  THEN SearchResult(FALSE, new_score, new_moves, m.calls)
                  ELSE CHOOSE total \in
                           {IF rest.raised # "none" THEN rest
                            ELSE SearchResult(FALSE, rest.score, rest.moves,
                                              m.calls + rest.calls)
                            : rest \in {max_step(self, game_state, own_moves, joint,
                                                 i + 1, depth, prev_min_step_score,
                                                 new_score, new_moves)}} : TRUE
              : m \in {min_step(self, game_state, own_moves[i], joint, 1, depth,
                                max_step_score, max_utility + 1, <<>>, 0)}} : TRUE

score_estimate_and_move_sequence(self, game_state, score_matters, depth, prev_min_step_score) ==
    IF is_terminal(game_state)
    THEN SearchResult(FALSE, utility(game_state, self.role), <<>>, 1)
    ELSE LET own_moves == shuffle(self.order,
                                  legal_actions(game_state, self.role))
             other_roles_move_lists ==
                 [k \in 1..Len(other_roles(game_state.game, self.role)) |->
                     LET role == other_roles(game_state.game, self.role)[k]
                         acts == legal_actions(game_state, role)
                     IN  [n \in 1..Len(acts) |-> <<role, acts[n]>>]]
         IN  IF own_moves = <<>> THEN AssertionFailed(1)
             ELSE IF ~score_matters /\ Len(own_moves) = 1
             THEN SearchResult(TRUE, 0, <<own_moves[1]>>, 1)
             ELSE IF \E k \in DOMAIN other_roles_move_lists :
                         other_roles_move_lists[k] = <<>>
             THEN AssertionFailed(1)
             ELSE CHOOSE result \in
                      {IF r.raised # "none" THEN r
                       ELSE SearchResult(FALSE, r.score, r.moves, r.calls + 1)
                       : r \in {max_step(self, game_state, own_moves,
                                         product(other_roles_move_lists), 1,
                                         depth, prev_min_step_score,
                                         min_utility - 1, <<>>)}} : TRUE

\* SearchPlayer.get_best_score_and_move_sequence with
\* Minimax.init_score_estimate_kwargs
get_best_score_and_move_sequence(self, game_state, score_matters) ==
    score_estimate_and_move_sequence(self, game_state, score_matters, 0,
                                     max_utility + 1)

(***************************************************************************)
(* Values the other components hold while one component is exercised.      *)
(***************************************************************************)
NoResult ==
    [done |-> FALSE, none |-> FALSE, score |-> 0, moves |-> <<>>, calls |-> 0, raised |-> "none"]

SearchIdle ==
    /\ search_state = initial_state(ButtonsAndLights)
    /\ own_order = "fwd"
    /\ root_matters = TRUE
    /\ search_role = "robot"
    /\ mm_result = NoResult
    /\ ab_result = NoResult

NoMessage == <<>>

NoResponse == [code |-> 0, body |-> ""]

ServerIdle ==
    /\ game_players = <<>>
    /\ objs = <<>>
    /\ created = 0
    /\ running = TRUE
    /\ last_msg = NoMessage
    /\ response = NoResponse
    /\ trace = <<>>
    /\ ended = {}

PlayerIdle ==
    /\ player = [cls |-> "none"]
    /\ player_op = [op |-> "none"]

AlarmIdle ==
    /\ alarm_active = FALSE
    /\ sigalrm = 0
    /\ alarm = 0
    /\ managers = <<>>
    /\ scopes = <<>>
    /\ alarm_event = "none"

GdlIdle == gdl = [stage |-> "none"]

(***************************************************************************)
(* Game states on their own: any state object may be asked to apply any    *)
(* move set, any number of times.                                          *)
(***************************************************************************)
InitState == StateInit /\ SearchIdle /\ ServerIdle /\ PlayerIdle /\ AlarmIdle /\ GdlIdle

NextState ==
    /\ StateNext
    /\ UNCHANGED <<search_vars, server_vars, player_vars, alarm_vars, gdl_vars>>

SpecState == InitState /\ [][NextState]_vars

\* C1: apply_moves returns a new state object and changes nothing a caller
\* can observe on the receiver or on any state object that already exists:
\* turn number, utilities, legal actions, true propositions and terminality
\* of every existing object are the same after the call as before it, so
\* successors of one parent do not affect each other.
ApplyMovesLeavesStatesUnchanged ==
    [][\A i \in DOMAIN heap :
          /\ i \in DOMAIN heap'
          /\ Observe(heap'[i]) = Observe(heap[i])]_vars

\* two different successors of the same parent exist side by side
TwoSuccessorsOfOneParent ==
    \E i, j, k \in DOMAIN heap :
        /\ j # k
        /\ heap[j].move_history # <<>>
        /\ heap[k].move_history # <<>>
        /\ Tail(heap[j].move_history) = heap[i].move_history
        /\ Tail(heap[k].move_history) = heap[i].move_history
        /\ heap[j].truth_state # heap[k].truth_state
        /\ Tail(heap[j].truth_history) = heap[i].truth_history
        /\ Tail(heap[k].truth_history) = heap[i].truth_history

\* C16: apply_moves with a joint move that does not hold exactly one action
\* per role, or that holds an action that is not legal for its role in the
\* receiver, raises ValueError and yields no new state object, and every
\* state object, the receiver included, is as before; a state object comes
\* to exist only as the successor of an existing one by a joint move of
\* one legal action per role.
IllFormedMovesRaiseValueError ==
    [][LET rs(s) == roles(s.game)
           ill_formed(s, moves) ==
               \/ DOMAIN moves # Range(rs(s))
               \/ \E role \in DOMAIN moves :
                      moves[role] \notin Range(legal_actions(s, role))
       IN  /\ \A i \in DOMAIN heap : \A moves \in MoveSets(heap[i].game) :
                  (ApplyMoves(i, moves) /\ ill_formed(heap[i], moves)) =>
                      /\ heap_raised' = "ValueError"
                      /\ heap' = heap
           /\ heap_raised' = "ValueError" => heap' = heap
           /\ \A k \in DOMAIN heap' \ DOMAIN heap :
                  \E i \in DOMAIN heap :
                      /\ Tail(heap'[k].move_history) = heap[i].move_history
                      /\ Tail(heap'[k].truth_history) = heap[i].truth_history
                      /\ Len(Head(heap'[k].move_history)) = Len(rs(heap[i]))
                      /\ \A n \in DOMAIN rs(heap[i]) :
                             Head(heap'[k].move_history)[n]
                                 \in Range(legal_actions(heap[i], rs(heap[i])[n]))]_vars

\* a call that raised after two successors of the two-role game were made
RaisedBesideSuccessors ==
    /\ heap_raised = "ValueError"
    /\ Len(heap) = 3
    /\ heap[1].game = SampleTree
    /\ heap[3].move_history = << <<"l", "n">>, <<"l", "x">> >>

\* C17 as stated: utility(role) is the value V of a solution of
\* goal(role, V) in the state, and the numerically largest V when there are
\* several solutions with different values.
UtilityIsLargestGoalValue ==
    \A i \in DOMAIN heap : \A role \in Range(roles(heap[i].game)) :
        LET solutions == Range(Goal(heap[i].game, heap[i].truth_state, role))
        IN  /\ utility(heap[i], role) \in solutions
            /\ \A V \in solutions : V <= utility(heap[i], role)

\* C17: utility(role) is the value V of the first solution of goal(role, V)
\* in the state, in the order the reasoner finds the solutions, whether or
\* not a later solution has a larger value.
UtilityIsFirstGoalValue ==
    \A i \in DOMAIN heap : \A role \in Range(roles(heap[i].game)) :
        LET solutions == Goal(heap[i].game, heap[i].truth_state, role)
        IN  /\ solutions # <<>>
            /\ utility(heap[i], role) = Head(solutions)

\* a state in which goal(black, 0) is found before goal(black, 100), and
\* goal(white, 100) before goal(white, 0)
SmallerGoalValueFirst ==
    \E i \in DOMAIN heap :
        /\ Goal(heap[i].game, heap[i].truth_state, "black") = <<0, 100>>
        /\ Goal(heap[i].game, heap[i].truth_state, "white") = <<100, 0>>
        /\ utility(heap[i], "black") = 0
        /\ utility(heap[i], "white") = 100

(***************************************************************************)
(* A match of buttons-and-lights, as the tests of GeneralGameState play    *)
(* it: from the initial state, apply_moves of one action of robot after    *)
(* the other until the state is terminal.  heap holds the current state.   *)
(***************************************************************************)
PlayAction(action) ==
    /\ ~is_terminal(heap[1])
    /\ ~apply_moves_raises(heap[1], [role \in {"robot"} |-> action])
    /\ heap' = <<apply_moves(heap[1], [role \in {"robot"} |-> action])>>
    /\ heap_raised' = "none"

InitMatch ==
    /\ heap = <<initial_state(ButtonsAndLights)>>
    /\ heap_raised = "none"
    /\ SearchIdle /\ ServerIdle /\ PlayerIdle /\ AlarmIdle /\ GdlIdle

NextMatch ==
    /\ \E action \in {"a", "b", "c"} : PlayAction(action)
    /\ UNCHANGED <<search_vars, server_vars, player_vars, alarm_vars, gdl_vars>>

SpecMatch == InitMatch /\ [][NextMatch]_vars

\* C15: in buttons-and-lights the initial state has turn 0 and truth set
\* {1} and is not terminal; every state has the legal actions a, b, c;
\* every apply_moves raises the turn number by one; non-terminal states
\* have utility 0; after a,b,c,a,b,a the state has turn 6 and truth set
\* {7,p,q,r}, is terminal and has utility 100; after a,b,c,a,b,b it has
\* truth set {7,p,r}, is terminal and has utility 0.
ButtonsAndLightsPlaysAsTested ==
    /\ [](LET s == heap[1]
              played(actions) ==
                  s.move_history = [i \in 1..Len(actions) |-> <<actions[Len(actions) + 1 - i]>>]
          IN  /\ played(<<>>) =>
                     /\ turn_number(s) = 0
                     /\ state_propositions(s) = {"1"}
                     /\ ~is_terminal(s)
              /\ Len(legal_actions(s, "robot")) = 3
              /\ Range(legal_actions(s, "robot")) = {"a", "b", "c"}
              /\ ~is_terminal(s) => utility(s, "robot") = 0
              /\ played(<<"a", "b", "c", "a", "b", "a">>) =>
                     /\ turn_number(s) = 6
                     /\ state_propositions(s) = {"7", "p", "q", "r"}
                     /\ is_terminal(s)
                     /\ utility(s, "robot") = 100
              /\ played(<<"a", "b", "c", "a", "b", "b">>) =>
                     /\ turn_number(s) = 6
                     /\ state_propositions(s) = {"7", "p", "r"}
                     /\ is_terminal(s)
                     /\ utility(s, "robot") = 0)
    /\ [][turn_number(heap'[1]) = turn_number(heap[1]) + 1]_vars

\* the match a,b,c,a,b,a has been played to its end
FullGameWon ==
    /\ heap[1].game = ButtonsAndLights
    /\ heap[1].move_history = << <<"a">>, <<"b">>, <<"a">>, <<"c">>, <<"b">>, <<"a">> >>
    /\ utility(heap[1], "robot") = 100

(***************************************************************************)
(* Search from the root: the game, the own role, the shuffle order and     *)
(* score_matters are inputs; Minimax and AlphaBeta each search once.       *)
(***************************************************************************)
Payoffs == {0, 50, 100}

Kids ==
    {Kid(TRUE, u, <<0, 0>>) : u \in Payoffs}
    \cup {Kid(FALSE, 0, <<u1, u2>>) : u1 \in Payoffs, u2 \in Payoffs}

TreeGames == {TreeGame(k1, k2, k3, k4) : k1 \in Kids, k2 \in Kids, k3 \in Kids, k4 \in Kids}

\* games that differ only below the joint move (l, x)
NarrowTreeGames ==
    {TreeGame(k1, Kid(TRUE, 50, <<0, 0>>), Kid(TRUE, 0, <<0, 0>>),
              Kid(TRUE, 100, <<0, 0>>)) : k1 \in Kids}

SearchInit ==
    /\ \/ /\ \E g \in TreeGames : search_state = initial_state(g)
          /\ search_role \in {"white", "black"}
          /\ root_matters = TRUE
       \/ /\ \E g \in NarrowTreeGames :
                 search_state \in
                     {initial_state(g),
                      apply_moves(initial_state(g),
                                  [r \in {"white", "black"} |->
                                      IF r = "white" THEN "l" ELSE "x"])}
          /\ search_role \in {"white", "black"}
          /\ root_matters = FALSE
       \/ /\ search_state = initial_state(ButtonsAndLights)
          /\ search_role = "robot"
          /\ root_matters \in BOOLEAN
    /\ own_order \in {"fwd", "rev"}
    /\ mm_result = NoResult
    /\ ab_result = NoResult

Done(r) ==
    [done |-> TRUE, none |-> r.none, score |-> r.score, moves |-> r.moves, calls |-> r.calls,
     raised |-> r.raised]

RunMinimax ==
    /\ ~mm_result.done
    /\ mm_result' = Done(get_best_score_and_move_sequence(
                         Searcher("Minimax", search_role, own_order),
                         search_state, root_matters))
    /\ UNCHANGED <<search_state, own_order, root_matters, search_role, ab_result>>

RunAlphaBeta ==
    /\ mm_result.done
    /\ ~ab_result.done
    /\ ab_result' = Done(get_best_score_and_move_sequence(
                         Searcher("AlphaBeta", search_role, own_order),
                         search_state, root_matters))
    /\ UNCHANGED <<search_state, own_order, root_matters, search_role, mm_result>>

InitSearch == SearchInit /\ StateIdle /\ ServerIdle /\ PlayerIdle /\ AlarmIdle /\ GdlIdle

NextSearch ==
    \/ RunMinimax /\ UNCHANGED <<state_vars, server_vars, player_vars, alarm_vars, gdl_vars>>
    \/ RunAlphaBeta /\ UNCHANGED <<state_vars, server_vars, player_vars, alarm_vars, gdl_vars>>

SpecSearch == InitSearch /\ [][NextSearch]_vars

\* C2: for every game, own role, shuffle order and score_matters, Minimax and
\* AlphaBeta called from the root (depth 0, prev_min_step_score =
\* max_utility + 1) return the same score (both None, or the same number);
\* the move sequences may differ.
MinimaxScoreEqualsAlphaBetaScore ==
    (mm_result.done /\ ab_result.done) =>
        /\ mm_result.none = ab_result.none
        /\ mm_result.score = ab_result.score

\* both searches ran on a game where AlphaBeta cut branches Minimax explored
\* and chose a different move sequence
AlphaBetaPrunedAndAgreed ==
    /\ mm_result.done
    /\ ab_result.done
    /\ ~mm_result.none
    /\ ab_result.calls < mm_result.calls
    /\ ab_result.score = mm_result.score
    /\ ab_result.score \notin {min_utility, max_utility}

\* the states reachable from a state by joint moves of legal actions
RECURSIVE reachable_states(_)
reachable_states(game_state) ==
    {game_state}
    \cup (IF is_terminal(game_state) THEN {}
          ELSE LET rs == roles(game_state.game)
                   joint == product([k \in 1..Len(rs) |->
                                        [n \in 1..Len(legal_actions(game_state, rs[k])) |->
                                            <<rs[k], legal_actions(game_state, rs[k])[n]>>]])
               IN  UNION {reachable_states(apply_moves(game_state, moves_dict(pairs))) :
                              pairs \in Range(joint)})

GamePlayer(cls, game, role) ==
    [cls |-> cls, role |-> role, game_state |-> initial_state(game)]

PlayerResult(raised, value, self) == [raised |-> raised, value |-> value, self |-> self]

\* GamePlayer._moves_dict: zip(self.roles, action_list)
GamePlayer_moves_dict_reversed(rs, action_list) ==
    [r \in Range(rs) |-> action_list[Len(rs) + 1 - (CHOOSE i \in DOMAIN rs : rs[i] = r)]]

GamePlayer_moves_dict(rs, action_list) ==
    [r \in Range(rs) |-> action_list[CHOOSE i \in DOMAIN rs : rs[i] = r]]

GamePlayer_update_moves(self, new_moves) ==
    LET rs == roles(self.game_state.game)
    IN  IF Len(rs) # Len(new_moves)
        THEN PlayerResult("AssertionError", "", self)
        ELSE IF \E i \in DOMAIN rs : utility_raises(self.game_state, rs[i])
        THEN PlayerResult("PrologCallFailed", "", self)
        ELSE LET moves == GamePlayer_moves_dict(rs, new_moves)
             IN  IF apply_moves_raises(self.game_state, moves)
                 THEN PlayerResult("ValueError", "", self)
                 ELSE PlayerResult("none", "",
                          [self EXCEPT !.game_state = apply_moves(self.game_state, moves)])

\* GamePlayer.stop: logs is_terminal() and utility(self.role)
GamePlayer_stop(self) ==
    IF utility_raises(self.game_state, self.role)
    THEN PlayerResult("PrologCallFailed", "", self)
    ELSE PlayerResult("none", "", self)

\* GamePlayer.abort: logs
GamePlayer_abort(self) == PlayerResult("none", "", self)

\* Legal.get_move: str(first_action(self.game_state, self.role))
Legal_get_move(self) ==
    LET actions == legal_actions(self.game_state, self.role)
    IN  IF actions = <<>>
        THEN PlayerResult("StopIteration", "", self)
        ELSE PlayerResult("none", actions[1], self)

(***************************************************************************)
(* The player server (pygdl/playerserver.py).  A message is the parsed     *)
(* s-expression of a request body: a tuple of atoms and nested lists.      *)
(***************************************************************************)
Atom(name) == [kind |-> "atom", name |-> name, items |-> <<>>]

SExpression(items) == [kind |-> "list", name |-> "", items |-> items]

GameIds == {"g1", "g2"}

\* the last argument of play and stop: nil, a joint move, a joint move with
\* an action that is not legal, a joint move with one action too many
Joints ==
    {Atom("nil"), SExpression(<<Atom("a")>>), SExpression(<<Atom("b")>>),
     SExpression(<<Atom("z")>>), SExpression(<<Atom("a"), Atom("b")>>)}

Messages ==
    {<<Atom("info")>>, <<Atom("info"), Atom("x")>>, <<Atom("bogus")>>, <<Atom("abort")>>}
    \cup {<<Atom("start"), Atom(g), Atom(r), Atom("buttonsandlights"), Atom(sc), Atom("10")>> :
              g \in GameIds, r \in {"robot", "ghost"}, sc \in {"10", "soon"}}
    \cup {<<Atom(t), Atom(g), j>> : t \in {"play", "stop"}, g \in GameIds, j \in Joints}
    \cup {<<Atom(t), Atom(g)>> : t \in {"start", "play", "stop", "abort"}, g \in GameIds}
    \cup {<<Atom(t), Atom(g), Atom("nil"), Atom("x")>> :
              t \in {"start", "play", "stop", "abort"}, g \in GameIds}

\* int(s) raises ValueError unless s is a decimal number
int_raises(s) == s \notin {"10"}

\* SExpression.__str__ of pygdl.languages.sexpressions
RECURSIVE SExpression_str(_)
SExpression_str(e) ==
    LET RECURSIVE join(_, _)
        join(items, i) ==
            IF i > Len(items) THEN ""
            ELSE (IF i > 1 THEN ", " ELSE "") \o SExpression_str(items[i]) \o join(items, i + 1)
    IN  IF e.kind = "atom" THEN e.name ELSE "(" \o join(e.items, 1) \o ")"

\* translate_prolog_term_to_prefix_gdl for an atom or a compound of atoms
translate_prolog_term_to_prefix_gdl(term) ==
    LET RECURSIVE join(_, _)
        join(args, i) ==
            IF i > Len(args) THEN ""
            ELSE (IF i > 1 THEN " " ELSE "") \o args[i] \o join(args, i + 1)
    IN  IF term.args = <<>> THEN term.name
        ELSE "(" \o term.name \o " " \o join(term.args, 1) \o ")"

\* UnparsedPrologTerm(str(move)).parse() for the action names of the games
parse_prolog_term(text) == [name |-> text, args |-> <<>>]

\* what a do_ handler leaves behind: the exception raised ("none" when it
\* returned), the value returned, the registry and the calls it made
Outcome(raised, result, players_, objs_, created_, calls) ==
    [raised |-> raised, result |-> result, game_players |-> players_,
     objs |-> objs_, created |-> created_, trace |-> calls]

Raise(raised, calls) == Outcome(raised, "", game_players, objs, created, calls)

Call(name, obj, value) == [call |-> name, obj |-> obj, value |-> value]

\* the default handler of an unknown message type: logs and returns None
no_handler == Outcome("none", "", game_players, objs, created, <<>>)

\* do_info that answers whatever follows the message type
do_info_ignoring_args(args) ==
    Outcome("none",
            SExpression_str(SExpression(<<SExpression(<<Atom("name"), Atom("Legal")>>),
                                          SExpression(<<Atom("status"), Atom("available")>>)>>)),
            game_players, objs, created, <<>>)

do_info(args) ==
    IF args # <<>> THEN Raise("NumberOfArgumentsError", <<>>)
    ELSE Outcome("none",
                 SExpression_str(SExpression(<<SExpression(<<Atom("name"), Atom("Legal")>>),
                                               SExpression(<<Atom("status"), Atom("available")>>)>>)),
                 game_players, objs, created, <<>>)

\* do_start after its checks: create the game and the player, register it
start_game(args) ==
    LET game_id == args[1].name
        new == created + 1
    IN  Outcome("none", "ready",
                [g \in DOMAIN game_players \cup {game_id} |->
                    IF g = game_id THEN new ELSE game_players[g]],
                [o \in DOMAIN objs \cup {new} |->
                    IF o = new THEN GamePlayer("Legal", ButtonsAndLights, args[2].name)
                    ELSE objs[o]],
                new,
                <<Call("create_game", 0, game_id), Call("player_factory", new, args[2].name)>>)

do_start_without_check(args) ==
    IF Len(args) # 5 THEN Raise("NumberOfArgumentsError", <<>>)
    ELSE IF int_raises(args[4].name) \/ int_raises(args[5].name) THEN Raise("ValueError", <<>>)
    ELSE start_game(args)

do_start(args) ==
    IF Len(args) # 5 THEN Raise("NumberOfArgumentsError", <<>>)
    ELSE IF int_raises(args[4].name) \/ int_raises(args[5].name) THEN Raise("ValueError", <<>>)
    ELSE IF args[1].name \in DOMAIN game_players THEN Raise("ForbiddenMessageError", <<>>)
    ELSE start_game(args)

\* _translate_new_moves_to_prolog: one term per element of the joint move
translate_new_moves(new_moves) == [i \in 1..Len(new_moves.items) |-> new_moves.items[i].name]

\* if new_moves != 'nil': player.update_moves(...), in do_play and do_stop:
\* the result of update_moves and the calls made
update_moves_always(pid, new_moves) ==
    [upd |-> GamePlayer_update_moves(objs[pid], translate_new_moves(new_moves)),
     calls |-> <<Call("update_moves", pid, translate_new_moves(new_moves))>>]

update_moves_unless_nil(pid, new_moves) ==
    IF new_moves # Atom("nil")
    THEN [upd |-> GamePlayer_update_moves(objs[pid], translate_new_moves(new_moves)),
          calls |-> <<Call("update_moves", pid, translate_new_moves(new_moves))>>]
    ELSE [upd |-> PlayerResult("none", "", objs[pid]), calls |-> <<>>]

do_play(args) ==
    IF Len(args) # 2 THEN Raise("NumberOfArgumentsError", <<>>)
    ELSE IF args[1].name \notin DOMAIN game_players THEN Raise("UnknownGameIDError", <<>>)
    ELSE LET pid == game_players[args[1].name]
             new_moves == args[2]
             upd == update_moves_unless_nil(pid, new_moves).upd
             calls1 == update_moves_unless_nil(pid, new_moves).calls
             move == Legal_get_move(upd.self)
             calls2 == Append(calls1, Call("get_move", pid, move.value))
             objs2 == [objs EXCEPT ![pid] = move.self]
         IN  IF upd.raised # "none" THEN Raise(upd.raised, calls1)
             ELSE IF move.raised # "none"
                  THEN Outcome(move.raised, "", game_players, objs2, created, calls2)
                  ELSE Outcome("none",
                               translate_prolog_term_to_prefix_gdl(parse_prolog_term(move.value)),
                               game_players, objs2, created, calls2)

do_stop(args) ==
    IF Len(args) # 2 THEN Raise("NumberOfArgumentsError", <<>>)
    ELSE IF args[1].name \notin DOMAIN game_players THEN Raise("UnknownGameIDError", <<>>)
    ELSE LET game_id == args[1].name
             pid == game_players[game_id]
             new_moves == args[2]
             upd == update_moves_unless_nil(pid, new_moves).upd
             calls1 == update_moves_unless_nil(pid, new_moves).calls
             stopped == GamePlayer_stop(upd.self)
             calls2 == Append(calls1, Call("stop", pid, ""))
             objs2 == [objs EXCEPT ![pid] = stopped.self]
         IN  IF upd.raised # "none" THEN Raise(upd.raised, calls1)
             ELSE IF stopped.raised # "none"
                  THEN Outcome(stopped.raised, "", game_players, objs2, created, calls2)
                  ELSE Outcome("none", "done",
                               [g \in DOMAIN game_players \ {game_id} |-> game_players[g]],
                               [o \in DOMAIN objs \ {pid} |-> objs2[o]],
                               created, Append(calls2, Call("del", pid, game_id)))

do_abort_keeping_player(args) ==
    IF Len(args) # 1 THEN Raise("NumberOfArgumentsError", <<>>)
    ELSE IF args[1].name \notin DOMAIN game_players THEN Raise("UnknownGameIDError", <<>>)
    ELSE Outcome("none", "done", game_players, objs, created,
                 <<Call("abort", game_players[args[1].name], "")>>)

do_abort(args) ==
    IF Len(args) # 1 THEN Raise("NumberOfArgumentsError", <<>>)
    ELSE IF args[1].name \notin DOMAIN game_players THEN Raise("UnknownGameIDError", <<>>)
    ELSE LET game_id == args[1].name
             pid == game_players[game_id]
             aborted == GamePlayer_abort(objs[pid])
         IN  Outcome("none", "done",
                     [g \in DOMAIN game_players \ {game_id} |-> game_players[g]],
                     [o \in DOMAIN objs \ {pid} |-> objs[o]],
                     created, <<Call("abort", pid, ""), Call("del", pid, game_id)>>)

\* handle_message up to the call of the do_ handler of the message type
dispatch(message) ==
    LET message_type == message[1].name
        args == Tail(message)
    IN  IF message_type = "info" THEN do_info(args)
        ELSE IF message_type = "start" THEN do_start(args)
        ELSE IF message_type = "play" THEN do_play(args)
        ELSE IF message_type = "stop" THEN do_stop(args)
        ELSE IF message_type = "abort" THEN do_abort(args)
        ELSE no_handler

handle_message_unconverted(message) == dispatch(message)

\* handle_message: an UnknownGameIDError becomes a ForbiddenMessageError
handle_message(message) ==
    IF dispatch(message).raised = "UnknownGameIDError"
    THEN [dispatch(message) EXCEPT !.raised = "ForbiddenMessageError"]
    ELSE dispatch(message)

status_code_swallowing_errors(raised) ==
    IF raised = "NumberOfArgumentsError" THEN 400
    ELSE IF raised = "ForbiddenMessageError" THEN 403
    ELSE 200

\* post_response: the status code for what handle_message did
status_code(raised) ==
    IF raised = "none" THEN 200
    ELSE IF raised = "NumberOfArgumentsError" THEN 400
    ELSE IF raised = "ForbiddenMessageError" THEN 403
    ELSE 500

\* the model handles a message only while the objects it would create or
\* advance stay within the bounds
WithinBounds(message) ==
    LET t == message[1].name
        id == IF Len(message) > 1 THEN message[2].name ELSE ""
    IN  /\ (t = "start" /\ Len(message) = 6) => created < MaxCreated
        /\ (t \in {"play", "stop"} /\ Len(message) = 3 /\ id \in DOMAIN game_players) =>
               turn_number(objs[game_players[id]].game_state) < MaxTurn

\* one POST request: post_response and do_POST, and ExceptionalHttpServer's
\* handle_error, which lets any other exception end serve_forever
HandleRequest(message) ==
    /\ running
    /\ WithinBounds(message)
    /\ \E out \in {handle_message(message)} :
           /\ game_players' = out.game_players
           /\ objs' = out.objs
           /\ created' = out.created
           /\ trace' = out.trace
           /\ last_msg' = message
           /\ response' = [code |-> status_code(out.raised),
                          body |-> IF status_code(out.raised) = 500
                                   THEN "Internal Server Error" ELSE out.result]
           /\ running' = (status_code(out.raised) # 500)
           /\ ended' = ended \cup (DOMAIN game_players \ DOMAIN out.game_players)

InitServer == ServerIdle /\ StateIdle /\ SearchIdle /\ PlayerIdle /\ AlarmIdle /\ GdlIdle

NextServer ==
    /\ \E message \in Messages : HandleRequest(message)
    /\ UNCHANGED <<state_vars, search_vars, player_vars, alarm_vars, gdl_vars>>

SpecServer == InitServer /\ [][NextServer]_vars

(***************************************************************************)
(* Claims about the player server.  In a step of SpecServer last_msg' is   *)
(* the message handled, response' the answer sent and trace' the calls the *)
(* handler made; the unprimed variables are the server before the request. *)
(***************************************************************************)
\* a (start GAME_ID ROLE RULES START_CLK PLAY_CLK) message with integer clocks
IsStart(m) ==
    /\ Len(m) = 6 /\ m[1].name = "start"
    /\ ~int_raises(m[5].name) /\ ~int_raises(m[6].name)

\* a (play GAME_ID JOINT), (stop GAME_ID JOINT) or (abort GAME_ID) message
IsOfType(m, types) ==
    /\ Len(m) >= 2 /\ m[1].name \in types
    /\ Len(m) = (IF m[1].name = "abort" THEN 2 ELSE 3)

Calls(calls, name) == {i \in DOMAIN calls : calls[i].call = name}

\* every registered id maps to one live player object of its own, and
\* there is no other live player object
OnePlayerPerGameId ==
    /\ \A g \in DOMAIN game_players : game_players[g] \in DOMAIN objs
    /\ \A g, h \in DOMAIN game_players : g # h => game_players[g] # game_players[h]
    /\ DOMAIN objs = Range(game_players)

\* C3: a start message for a game id that already has a registered player
\* is answered 403, creates no player and leaves the registry and the
\* registered players as they were; so each registered game id always has
\* exactly one player of its own.
StartOfRegisteredIdIsRefused ==
    /\ []OnePlayerPerGameId
    /\ [][(IsStart(last_msg') /\ last_msg'[2].name \in DOMAIN game_players) =>
              /\ response' = [code |-> 403, body |-> ""]
              /\ running'
              /\ UNCHANGED <<game_players, objs, created>>]_vars

DuplicateStartRefused ==
    /\ IsStart(last_msg)
    /\ last_msg[2].name \in DOMAIN game_players
    /\ response.code = 403

\* C4: a play, stop or abort message for a game id without a registered
\* player is answered 403 and changes neither the registry nor any player.
UnknownGameIdIsRefused ==
    [][(/\ IsOfType(last_msg', {"play", "stop", "abort"})
        /\ last_msg'[2].name \notin DOMAIN game_players) =>
           /\ response' = [code |-> 403, body |-> ""]
           /\ running'
           /\ trace' = <<>>
           /\ UNCHANGED <<game_players, objs, created>>]_vars

UnknownGameIdRefusedWithOtherGameLive ==
    /\ IsOfType(last_msg, {"play", "stop", "abort"})
    /\ last_msg[2].name \notin DOMAIN game_players
    /\ response.code = 403
    /\ DOMAIN game_players # {}

\* C5: handling (play GAME_ID JOINT) for a registered id calls update_moves
\* with JOINT on the player of GAME_ID exactly when JOINT is not nil, calls
\* it before get_move, and a 200 answer carries the result of get_move.
PlayUpdatesMovesThenGetsMove ==
    [][(/\ IsOfType(last_msg', {"play"})
        /\ last_msg'[2].name \in DOMAIN game_players) =>
           LET pid == game_players[last_msg'[2].name]
               JOINT == last_msg'[3]
               upds == Calls(trace', "update_moves")
               gets == Calls(trace', "get_move")
           IN  /\ \A i \in DOMAIN trace' : trace'[i].obj = pid /\ i \in upds \cup gets
               /\ (upds # {}) <=> (JOINT # Atom("nil"))
               /\ \A i \in upds : i = 1 /\ trace'[i].value = translate_new_moves(JOINT)
               /\ \A i \in upds, j \in gets : i < j
               /\ Cardinality(gets) <= 1
               /\ response'.code \in {200, 500}
               /\ response'.code = 200 =>
                      /\ gets = {Len(trace')}
                      /\ response'.body = trace'[Len(trace')].value
                      /\ response'.body \in Range(legal_actions(objs'[pid].game_state, objs'[pid].role))]_vars

PlayedAfterUpdate ==
    /\ IsOfType(last_msg, {"play"})
    /\ last_msg[3] = SExpression(<<Atom("a")>>)
    /\ response = [code |-> 200, body |-> "a"]
    /\ Len(trace) = 2
    /\ trace[1].call = "update_moves" /\ trace[2].call = "get_move"

\* C6 as stated: handling (stop GAME_ID JOINT) for a registered id calls
\* update_moves, then stop(), then removes the player, and answers done.
StopUpdatesStopsAndRemoves ==
    [][(/\ IsOfType(last_msg', {"stop"})
        /\ last_msg'[2].name \in DOMAIN game_players) =>
           /\ Len(trace') = 3
           /\ trace'[1].call = "update_moves"
           /\ trace'[2].call = "stop"
           /\ trace'[3].call = "del"
           /\ last_msg'[2].name \notin DOMAIN game_players'
           /\ response' = [code |-> 200, body |-> "done"]]_vars

\* C6 amended: handling (stop GAME_ID JOINT) for a registered id calls
\* update_moves exactly when JOINT is not nil and, when neither update_moves
\* nor stop() raises, then stop(), then removes the player, in that order,
\* and answers done; when one of them raises the answer is 500 and the
\* player stays registered.
StopUpdatesUnlessNilThenStopsAndRemoves ==
    [][(/\ IsOfType(last_msg', {"stop"})
        /\ last_msg'[2].name \in DOMAIN game_players) =>
           LET GAME_ID == last_msg'[2].name
               pid == game_players[GAME_ID]
               JOINT == last_msg'[3]
               upd == update_moves_unless_nil(pid, JOINT).upd
               upds == Calls(trace', "update_moves")
               stops == Calls(trace', "stop")
               dels == Calls(trace', "del")
           IN  /\ \A i \in DOMAIN trace' : trace'[i].obj = pid /\ i \in upds \cup stops \cup dels
               /\ (upds # {}) <=> (JOINT # Atom("nil"))
               /\ \A i \in upds, j \in stops : i < j
               /\ \A i \in stops, j \in dels : i < j
               /\ Cardinality(upds) <= 1 /\ Cardinality(stops) <= 1 /\ Cardinality(dels) <= 1
               /\ response'.code = (IF upd.raised = "none" /\ GamePlayer_stop(upd.self).raised = "none"
                                    THEN 200 ELSE 500)
               /\ response'.code = 200 =>
                      /\ stops # {} /\ dels = {Len(trace')}
                      /\ response'.body = "done"
                      /\ GAME_ID \notin DOMAIN game_players'
                      /\ pid \notin DOMAIN objs'
               /\ response'.code = 500 => dels = {} /\ game_players' = game_players]_vars

StoppedWithNil ==
    /\ IsOfType(last_msg, {"stop"})
    /\ last_msg[3] = Atom("nil")
    /\ response = [code |-> 200, body |-> "done"]
    /\ Len(trace) = 2
    /\ trace[1].call = "stop" /\ trace[2].call = "del"

\* C7: a stop or abort answered 200 leaves its game id without a registered
\* player; while an id that was stopped or aborted is unregistered, a play,
\* stop or abort for it is answered 403, and a start for it is answered
\* ready and registers a newly constructed player in the initial state.
StoppedIdIsUnregisteredAndRestartable ==
    [][/\ (IsOfType(last_msg', {"stop", "abort"}) /\ response'.code = 200) =>
              /\ last_msg'[2].name \in DOMAIN game_players
              /\ last_msg'[2].name \notin DOMAIN game_players'
              /\ last_msg'[2].name \in ended'
              /\ game_players[last_msg'[2].name] \notin DOMAIN objs'
       /\ \A g \in ended \ DOMAIN game_players :
              /\ (IsOfType(last_msg', {"play", "stop", "abort"}) /\ last_msg'[2].name = g) =>
                     /\ response' = [code |-> 403, body |-> ""]
                     /\ UNCHANGED <<game_players, objs>>
              /\ (IsStart(last_msg') /\ last_msg'[2].name = g) =>
                     /\ response' = [code |-> 200, body |-> "ready"]
                     /\ g \in DOMAIN game_players'
                     /\ game_players'[g] > created
                     /\ game_players'[g] \notin DOMAIN objs
                     /\ objs'[game_players'[g]] =
                            GamePlayer("Legal", ButtonsAndLights, last_msg'[3].name)
                     /\ \A o \in DOMAIN objs : objs'[o] = objs[o]]_vars

RestartedAfterStop ==
    /\ IsStart(last_msg)
    /\ response = [code |-> 200, body |-> "ready"]
    /\ last_msg[2].name \in ended
    /\ last_msg[2].name \in DOMAIN game_players

\* an exception other than a message error leaves do_play for this request
PlayRaises(m) ==
    LET upd == update_moves_unless_nil(game_players[m[2].name], m[3]).upd
    IN  upd.raised # "none" \/ Legal_get_move(upd.self).raised # "none"

\* C8 as stated: an error raised while a player handles a play request does
\* not stop the server; the request is answered with the first legal action.
PlayErrorNeverStopsServer ==
    [][(/\ IsOfType(last_msg', {"play"})
        /\ last_msg'[2].name \in DOMAIN game_players
        /\ PlayRaises(last_msg')) =>
           /\ running'
           /\ response'.code = 200
           /\ LET p == objs'[game_players[last_msg'[2].name]]
              IN  legal_actions(p.game_state, p.role) # <<>> =>
                      response'.body = legal_actions(p.game_state, p.role)[1]]_vars

\* C8 amended: an error raised while a player handles a play request is
\* answered with HTTP 500 and stops the server; no move is sent, the
\* player stays registered and no later request is handled.
PlayErrorStopsServer ==
    [][/\ running
       /\ (/\ IsOfType(last_msg', {"play"})
           /\ last_msg'[2].name \in DOMAIN game_players
           /\ PlayRaises(last_msg')) =>
              /\ response' = [code |-> 500, body |-> "Internal Server Error"]
              /\ ~running'
              /\ UNCHANGED <<game_players, created>>]_vars

ServerStoppedByPlayError ==
    /\ IsOfType(last_msg, {"play"})
    /\ last_msg[2].name \in DOMAIN game_players
    /\ last_msg[3] = SExpression(<<Atom("z")>>)
    /\ response.code = 500
    /\ ~running


\* C19: handling (info) changes neither the registry nor any player and
\* is answered 200 with ((name NAME) (status S)), S being available or
\* busy, the elements of each list one space apart.
InfoAnswersNameAndStatus ==
    [][last_msg' = <<Atom("info")>> =>
          /\ response'.code = 200
          /\ response'.body \in {"((name Legal) (status available))",
                                 "((name Legal) (status busy))"}
          /\ running'
          /\ trace' = <<>>
          /\ UNCHANGED <<game_players, objs, created>>]_vars

\* What holds of (info): no state changes, and the answer is the text
\* SExpression.__str__ makes, its elements joined by a comma and a space
\* and the status always available.
InfoAnswersCommaSeparated ==
    [][last_msg' = <<Atom("info")>> =>
          /\ response' = [code |-> 200,
                          body |-> "((name, Legal), (status, available))"]
          /\ running'
          /\ trace' = <<>>
          /\ UNCHANGED <<game_players, objs, created>>]_vars

InfoAnsweredWhilePlaying ==
    /\ last_msg = <<Atom("info")>>
    /\ response.code = 200
    /\ DOMAIN game_players # {}
    /\ \E o \in DOMAIN objs : turn_number(objs[o].game_state) > 0

\* C20: a message with the wrong number of arguments for its type (info
\* with any, start without 5, play or stop without 2, abort without 1) is
\* answered 400 and has no effect: no handler call is made, and the
\* registry and every player are as before.
WrongNumberOfArgumentsIsMalformed ==
    [][LET type == last_msg'[1].name
           given == Len(last_msg') - 1
       IN  (\/ type = "info" /\ given # 0
            \/ type = "start" /\ given # 5
            \/ type \in {"play", "stop"} /\ given # 2
            \/ type = "abort" /\ given # 1) =>
               /\ response' = [code |-> 400, body |-> ""]
               /\ running'
               /\ trace' = <<>>
               /\ UNCHANGED <<game_players, objs, created>>]_vars

\* a play message without its joint move, for a game being played
PlayOfLiveGameWithoutMoves ==
    /\ last_msg = <<Atom("play"), Atom("g1")>>
    /\ "g1" \in DOMAIN game_players
    /\ turn_number(objs[game_players["g1"]].game_state) > 0
    /\ response.code = 400

(***************************************************************************)
(* The player classes (ggp/players.py).  Besides the fields of GamePlayer  *)
(* a player carries max_depth and timer (BoundedDepth, MonteCarlo) and the *)
(* search tree (MonteCarloTreeSearch).  Where a method draws random        *)
(* numbers or is cut short by the alarm it has several outcomes: the       *)
(* operators below give the set of them.                                   *)
(***************************************************************************)
\* SearchPlayer.get_move for Minimax and AlphaBeta; order is the shuffle
SearchPlayer_get_move(self, order) ==
    {IF r.raised # "none" THEN PlayerResult(r.raised, "", self)
     ELSE IF r.moves = <<>> THEN PlayerResult("IndexError", "", self)
     ELSE PlayerResult("none",
                       IF r.none THEN r.moves[1] ELSE r.moves[1][self.role],
                       self)
     : r \in {get_best_score_and_move_sequence(
                  Searcher(self.cls, self.role, order), self.game_state, FALSE)}}

\* BoundedDepth.get_move.  BoundedDepth.score_estimate_and_move_sequence
\* calls self.timer.check() and returns nothing, so SearchPlayer.get_move
\* fails to unpack its result unless TimeUp is raised first.
BoundedDepth_get_move(self, time_up) ==
    IF self.max_depth = -1
    THEN IF legal_actions(self.game_state, self.role) = <<>>
         THEN PlayerResult("StopIteration", "", [self EXCEPT !.max_depth = 0, !.timer = "exited"])
         ELSE IF time_up
         THEN PlayerResult("none", legal_actions(self.game_state, self.role)[1],
                           [self EXCEPT !.timer = "none"])
         ELSE PlayerResult("TypeError", "", [self EXCEPT !.max_depth = 1, !.timer = "exited"])
    ELSE PlayerResult("AttributeError", "", self)

(***************************************************************************)
(* MonteCarloTreeSearch.  The tree is a function from paths (the actions   *)
(* from the root) to nodes; the children of a node are the paths one       *)
(* action longer, action_child keeps their insertion order.  total_score   *)
(* is kept in hundredths.                                                  *)
(***************************************************************************)
\* apply_partial_move that applies each action as it comes and keeps no
\* pending move
apply_partial_move_keeping_state(pm, role, action) ==
    [game_state |-> pm.game_state, moves |-> <<>>]

\* PartialMoveGameState.apply_partial_move
apply_partial_move(pm, role, action) ==
    LET new_moves == [r \in DOMAIN pm.moves \cup {role} |->
                         IF r = role THEN action ELSE pm.moves[r]]
    IN  IF Cardinality(DOMAIN new_moves) = Len(roles(pm.game_state.game))
        THEN [game_state |-> apply_moves(pm.game_state, new_moves), moves |-> <<>>]
        ELSE [game_state |-> pm.game_state, moves |-> new_moves]

\* MonteCarloTreeSearch.Node.__init__; order is the shuffle of unseen_actions
Node(game_state, role_index, order) ==
    [game_state |-> game_state, role_index |-> role_index, action_child |-> <<>>,
     unseen_actions |-> shuffle(order, legal_actions(game_state.game_state,
                                    roles(game_state.game_state.game)[role_index])),
     total_score |-> 0, times_seen |-> 0]

\* _make_root_node that gives the root the role after the player's own
make_root_node_for_next_role(self, order) ==
    [path \in {<<>>} |->
        Node([game_state |-> self.game_state, moves |-> <<>>],
             ((CHOOSE i \in DOMAIN roles(self.game_state.game) :
                   roles(self.game_state.game)[i] = self.role)
              % Len(roles(self.game_state.game))) + 1,
             order)]

\* _make_root_node: PartialMoveGameState(self.game_state) at self.role_index
make_root_node(self, order) ==
    [path \in {<<>>} |->
        Node([game_state |-> self.game_state, moves |-> <<>>],
             CHOOSE i \in DOMAIN roles(self.game_state.game) :
                 roles(self.game_state.game)[i] = self.role,
             order)]

\* normalize_score that leaves the game utility as it is
normalize_score_raw(game_utility) == game_utility * 100

\* normalize_score, in hundredths
normalize_score(game_utility) ==
    ((game_utility - min_utility) * 100) \div (max_utility - min_utility)

\* backpropagate_score that updates only the last node of the path
backpropagate_score_to_leaf(tree, path, score) ==
    [q \in DOMAIN tree |->
        IF q = path
        THEN [tree[q] EXCEPT !.times_seen = @ + 1, !.total_score = @ + score]
        ELSE tree[q]]

\* backpropagate_score: Node.update on every node of the path
backpropagate_score(tree, path, score) ==
    [q \in DOMAIN tree |->
        IF Len(q) <= Len(path) /\ q = SubSeq(path, 1, Len(q))
        THEN [tree[q] EXCEPT !.times_seen = @ + 1, !.total_score = @ + score]
        ELSE tree[q]]

\* the Select loop of run_search: select_child maximises an upper confidence
\* bound over shuffled children; any child may be the one
RECURSIVE select(_, _)
select(tree, path) ==
    IF tree[path].unseen_actions = <<>> /\ tree[path].action_child # <<>>
    THEN UNION {select(tree, Append(path, a)) : a \in Range(tree[path].action_child)}
    ELSE {path}

\* GameSimulator.play_random_game: the utilities a random game can end with
RECURSIVE play_random_game(_, _)
play_random_game(game_state, role) ==
    IF is_terminal(game_state) THEN {utility(game_state, role)}
    ELSE UNION {play_random_game(apply_moves(game_state, moves), role) :
                    moves \in {m \in [Range(roles(game_state.game)) ->
                                         UNION {Range(legal_actions(game_state, r)) :
                                                    r \in Range(roles(game_state.game))}] :
                                  \A r \in DOMAIN m : m[r] \in Range(legal_actions(game_state, r))}}

\* run_search that attaches the child before it simulates the game
run_search_attaching_first(self, order) ==
    UNION {LET tree == self.tree
               node == tree[path]
               rs == roles(self.game_state.game)
               action == node.unseen_actions[Len(node.unseen_actions)]
               leaf == Node(apply_partial_move(node.game_state, rs[node.role_index], action),
                            (node.role_index % Len(rs)) + 1, order)
               attached == [q \in DOMAIN tree \cup {Append(path, action)} |->
                               IF q = Append(path, action) THEN leaf
                               ELSE IF q = path
                               THEN [node EXCEPT
                                        !.action_child = Append(@, action),
                                        !.unseen_actions = SubSeq(@, 1, Len(@) - 1)]
                               ELSE tree[q]]
           IN  IF is_terminal(node.game_state.game_state)
               THEN {[raised |-> "none",
                      tree |-> backpropagate_score(tree, path,
                                   normalize_score(utility(node.game_state.game_state,
                                                           rs[node.role_index])))]}
                    \cup (IF path # <<>> THEN {[raised |-> "TimeUp", tree |-> tree]} ELSE {})
               ELSE {[raised |-> "none",
                      tree |-> backpropagate_score(attached, Append(path, action),
                                                   normalize_score(score))] :
                         score \in play_random_game(leaf.game_state.game_state, self.role)}
                    \cup (IF path # <<>> \/ ~is_terminal(leaf.game_state.game_state)
                          THEN {[raised |-> "TimeUp", tree |-> attached]} ELSE {})
           : path \in select(self.tree, <<>>)}

\* run_search: the trees one search can leave, and whether TimeUp ended it
run_search(self, order) ==
    UNION {LET tree == self.tree
               node == tree[path]
               rs == roles(self.game_state.game)
               action == node.unseen_actions[Len(node.unseen_actions)]
               leaf == Node(apply_partial_move(node.game_state, rs[node.role_index], action),
                            (node.role_index % Len(rs)) + 1, order)
               attached == [q \in DOMAIN tree \cup {Append(path, action)} |->
                               IF q = Append(path, action) THEN leaf
                               ELSE IF q = path
                               THEN [node EXCEPT
                                        !.action_child = Append(@, action),
                                        !.unseen_actions = SubSeq(@, 1, Len(@) - 1)]
                               ELSE tree[q]]
           IN  IF is_terminal(node.game_state.game_state)
               THEN {[raised |-> "none",
                      tree |-> backpropagate_score(tree, path,
                                   normalize_score(utility(node.game_state.game_state,
                                                           rs[node.role_index])))]}
                    \cup (IF path # <<>> THEN {[raised |-> "TimeUp", tree |-> tree]} ELSE {})
               ELSE {[raised |-> "none",
                      tree |-> backpropagate_score(attached, Append(path, action),
                                                   normalize_score(score))] :
                         score \in play_random_game(leaf.game_state.game_state, self.role)}
                    \cup (IF path # <<>> \/ ~is_terminal(leaf.game_state.game_state)
                          THEN {[raised |-> "TimeUp", tree |-> tree]} ELSE {})
           : path \in select(self.tree, <<>>)}

\* while True: timer.check(); self.run_search(timer) until TimeUp, which
\* comes after at most searches searches: the trees it can leave
RECURSIVE search_until_time_up(_, _, _)
search_until_time_up(self, order, searches) ==
    {self.tree}
    \cup (IF searches = 0 THEN {}
          ELSE UNION {search_until_time_up([self EXCEPT !.tree = found.tree], order, searches - 1) :
                          found \in {r \in run_search(self, order) : r.raised = "none"}})

\* return max(...)[0] at the end of get_move: the first action of the root
\* whose child has the greatest mean score among those seen
max_mean_action(self, tree) ==
    LET root == tree[<<>>]
        seen == SelectSeq(root.action_child, LAMBDA a : tree[<<a>>].times_seen > 0)
        mean_le(a, b) == tree[<<a>>].total_score * tree[<<b>>].times_seen
                             <= tree[<<b>>].total_score * tree[<<a>>].times_seen
        best == CHOOSE i \in DOMAIN seen :
                    /\ \A j \in DOMAIN seen : mean_le(seen[j], seen[i])
                    /\ \A j \in 1..(i - 1) : ~mean_le(seen[i], seen[j])
    IN  IF seen = <<>> THEN PlayerResult("ValueError", "", [self EXCEPT !.tree = tree])
        ELSE PlayerResult("none", seen[best], [self EXCEPT !.tree = tree])

\* MonteCarloTreeSearch.get_move: search until TimeUp, then the first action
\* of the root whose child has the greatest mean score
MonteCarloTreeSearch_get_move(self, order) ==
    {max_mean_action(self, tree) : tree \in search_until_time_up(self, order, MaxSearches)}

\* MonteCarloTreeSearch.update_moves: GamePlayer.update_moves, then the root
\* moves to the child of each role's action in turn, or to a new root
MonteCarloTreeSearch_update_moves(self, new_moves, order) ==
    LET rs == roles(self.game_state.game)
        upd == GamePlayer_update_moves(self, new_moves)
        first == self.tree[<<>>].role_index
        actions == [k \in 1..Len(rs) |-> new_moves[((first + k - 2) % Len(rs)) + 1]]
        below == {path \in DOMAIN self.tree :
                     Len(path) >= Len(rs) /\ SubSeq(path, 1, Len(rs)) = actions}
        root == IF \A k \in 1..Len(rs) : SubSeq(actions, 1, k) \in DOMAIN self.tree
                THEN [path \in {SubSeq(q, Len(rs) + 1, Len(q)) : q \in below} |->
                         self.tree[actions \o path]]
                ELSE make_root_node(upd.self, order)
    IN  IF Len(rs) # Len(new_moves) THEN PlayerResult("AssertionError", "", self)
        ELSE IF upd.raised # "none" THEN upd
        ELSE IF root[<<>>].game_state.game_state.truth_state # upd.self.game_state.truth_state
        THEN PlayerResult("AssertionError", "", [upd.self EXCEPT !.tree = root])
        ELSE PlayerResult("none", "", [upd.self EXCEPT !.tree = root])

PlayerClasses ==
    {"Legal", "Random", "CompulsiveDeliberation", "Minimax", "AlphaBeta",
     "BoundedDepth", "MonteCarlo", "MonteCarloTreeSearch"}

\* the players the constructors can return.  SimpleDepthFirstSearch asserts
\* a single-player game; MonteCarloTreeSearch.__init__ searches until TimeUp.
NewPlayers(cls, game, role) ==
    LET fields(max_depth, tree) ==
            [cls |-> cls, role |-> role, game_state |-> initial_state(game),
             max_depth |-> max_depth, timer |-> "none", tree |-> tree]
    IN  IF cls = "CompulsiveDeliberation" /\ Len(roles(game)) # 1 THEN {}
        ELSE IF cls \in {"BoundedDepth", "MonteCarlo"}
        THEN {fields(max_depth, <<>>) : max_depth \in {-1, 1}}
        ELSE IF cls = "MonteCarloTreeSearch"
        THEN UNION {{fields(0, tree) :
                        tree \in search_until_time_up(
                                     fields(0, make_root_node(fields(0, <<>>), order)),
                                     order, MaxSearches)} :
                       order \in {"fwd", "rev"}}
        ELSE {fields(0, <<>>)}

\* the outcomes of self.get_move()
get_move(self) ==
    IF self.cls = "Legal" THEN {Legal_get_move(self)}
    ELSE IF self.cls \in {"Random", "CompulsiveDeliberation"}
    THEN {PlayerResult("TypeError", "", self)}
    ELSE IF self.cls \in {"Minimax", "AlphaBeta"}
    THEN UNION {SearchPlayer_get_move(self, order) : order \in {"fwd", "rev"}}
    ELSE IF self.cls \in {"BoundedDepth", "MonteCarlo"}
    THEN {BoundedDepth_get_move(self, time_up) : time_up \in BOOLEAN}
    ELSE UNION {MonteCarloTreeSearch_get_move(self, order) : order \in {"fwd", "rev"}}

\* the outcomes of self.update_moves(new_moves)
update_moves(self, new_moves) ==
    IF self.cls = "MonteCarloTreeSearch"
    THEN {MonteCarloTreeSearch_update_moves(self, new_moves, order) : order \in {"fwd", "rev"}}
    ELSE {GamePlayer_update_moves(self, new_moves)}

\* joint moves a game manager may send: legal ones, the roles' actions in
\* the wrong order, an action that is not legal, a list of the wrong length
NewMoves(game) ==
    IF game.name = "buttonsandlights"
    THEN {<<"a">>, <<"b">>, <<"z">>, <<"a", "b">>}
    ELSE {<<"l", "x">>, <<"r", "y">>, <<"l", "n">>, <<"x", "l">>, <<"l">>}

\* the games the players are constructed for; the searching players get
\* the two-role game
PlayerGames(cls) ==
    IF cls \in {"Minimax", "AlphaBeta"} THEN {SampleTree}
    ELSE {ButtonsAndLights, SampleTree}

Called(op, arg, result) ==
    [op |-> op, arg |-> arg, raised |-> result.raised, value |-> result.value]

PlayerInit ==
    /\ player \in UNION {UNION {UNION {NewPlayers(cls, game, role) :
                                          role \in Range(roles(game))} :
                                   game \in PlayerGames(cls)} :
                            cls \in PlayerClasses}
    /\ player_op = [op |-> "new", arg |-> <<>>, raised |-> "none", value |-> ""]

UpdateMoves(new_moves) ==
    /\ turn_number(player.game_state) < MaxTurn
    /\ \E result \in update_moves(player, new_moves) :
           /\ player' = result.self
           /\ player_op' = Called("update_moves", new_moves, result)

GetMove ==
    /\ player.cls = "MonteCarloTreeSearch" => player.tree[<<>>].times_seen < MaxSeen
    /\ \E result \in get_move(player) :
           /\ player' = result.self
           /\ player_op' = Called("get_move", <<>>, result)

Stop ==
    /\ player' = GamePlayer_stop(player).self
    /\ player_op' = Called("stop", <<>>, GamePlayer_stop(player))

Abort ==
    /\ player' = GamePlayer_abort(player).self
    /\ player_op' = Called("abort", <<>>, GamePlayer_abort(player))

InitPlayer == PlayerInit /\ StateIdle /\ SearchIdle /\ ServerIdle /\ AlarmIdle /\ GdlIdle

NextPlayer ==
    \/ /\ \E new_moves \in NewMoves(player.game_state.game) : UpdateMoves(new_moves)
       /\ UNCHANGED <<state_vars, search_vars, server_vars, alarm_vars, gdl_vars>>
    \/ GetMove /\ UNCHANGED <<state_vars, search_vars, server_vars, alarm_vars, gdl_vars>>
    \/ Stop /\ UNCHANGED <<state_vars, search_vars, server_vars, alarm_vars, gdl_vars>>
    \/ Abort /\ UNCHANGED <<state_vars, search_vars, server_vars, alarm_vars, gdl_vars>>

SpecPlayer == InitPlayer /\ [][NextPlayer]_vars

\* C9: update_moves, when it returns, has replaced game_state by
\* game_state.apply_moves of the joint move paired with the roles in
\* roles() order, and game_state is replaced by nothing else: a failed
\* update_moves leaves it or has already replaced it so, and get_move, stop
\* and abort leave it unchanged for every player class, however often called.
OnlyUpdateMovesReplacesGameState ==
    [][LET rs == roles(player.game_state.game)
           new_moves == player_op'.arg
           moves == [r \in Range(rs) |-> new_moves[CHOOSE i \in DOMAIN rs : rs[i] = r]]
           applies == /\ Len(new_moves) = Len(rs)
                      /\ ~apply_moves_raises(player.game_state, moves)
       IN  /\ player'.cls = player.cls /\ player'.role = player.role
           /\ player_op'.op \in {"get_move", "stop", "abort"} =>
                  player'.game_state = player.game_state
           /\ (player_op'.op = "update_moves" /\ player_op'.raised = "none") =>
                  applies /\ player'.game_state = apply_moves(player.game_state, moves)
           /\ (player_op'.op = "update_moves" /\ player_op'.raised # "none") =>
                  \/ player'.game_state = player.game_state
                  \/ applies /\ player'.game_state = apply_moves(player.game_state, moves)]_vars

MovedAfterUpdateOfTwoRoleGame ==
    /\ player.cls = "MonteCarloTreeSearch"
    /\ player.game_state.game = SampleTree
    /\ player.game_state.move_history = << <<"l", "x">> >>
    /\ player_op.op = "get_move"
    /\ player_op.raised = "none"

\* C11: a TimeUp raised by timer.check() during a search is caught by the
\* operation that opened the timer scope: no player operation ends with
\* TimeUp, and a get_move of an iterative-deepening BoundedDepth player or
\* of a MonteCarloTreeSearch player that was ended by TimeUp returns its
\* best-known move (the first legal action, the root action whose child has
\* the greatest mean score).
TimeUpIsCaughtAndBestMoveReturned ==
    /\ [](player_op.raised # "TimeUp")
    /\ [][LET tree == player'.tree
              seen == {a \in Range(tree[<<>>].action_child) : tree[<<a>>].times_seen > 0}
              best == player_op'.value
          IN  /\ (/\ player_op'.op = "get_move"
                  /\ player.cls \in {"BoundedDepth", "MonteCarlo"}
                  /\ player.max_depth = -1
                  /\ player'.max_depth = -1) =>
                     /\ player_op'.raised = "none"
                     /\ best = legal_actions(player.game_state, player.role)[1]
              /\ (player_op'.op = "get_move" /\ player.cls = "MonteCarloTreeSearch") =>
                     /\ player_op'.raised = "none"
                     /\ best \in seen
                     /\ \A a \in seen :
                            tree[<<a>>].total_score * tree[<<best>>].times_seen
                                <= tree[<<best>>].total_score * tree[<<a>>].times_seen]_vars

\* get_move of a MonteCarloTreeSearch player whose TimeUp came before any
\* child of the root was seen: max() of an empty sequence
NoSeenChildWhenTimeUp ==
    /\ player.cls = "MonteCarloTreeSearch"
    /\ ~is_terminal(player.game_state)
    /\ player_op.op = "get_move"
    /\ player_op.raised = "ValueError"
    /\ player.tree[<<>>].action_child = <<>>

\* the sum of child.times_seen over node.action_child
times_seen_of_children(tree, path) ==
    LET RECURSIVE sum(_)
        sum(actions) ==
            IF actions = <<>> THEN 0
            ELSE tree[Append(path, actions[1])].times_seen + sum(Tail(actions))
    IN  sum(tree[path].action_child)

\* C12 as stated: every node of the search tree that has a child has
\* times_seen equal to 1 plus the sum of the times_seen of its children.
TimesSeenIsOnePlusChildren ==
    player.cls = "MonteCarloTreeSearch" =>
        \A path \in DOMAIN player.tree :
            player.tree[path].action_child # <<>> =>
                player.tree[path].times_seen = 1 + times_seen_of_children(player.tree, path)

\* C12: every node below the root that has a child has times_seen equal to
\* 1 plus the sum of the times_seen of its children.  The root that
\* _make_root_node built starts at 0 and is never simulated from: its
\* times_seen equals the sum of its children's, through every search; once
\* update_moves has advanced the root to a node of the tree, the root too
\* has 1 plus the sum.
TimesSeenCountsVisits ==
    /\ [](player.cls = "MonteCarloTreeSearch" =>
             /\ \A path \in DOMAIN player.tree \ {<<>>} :
                    player.tree[path].action_child # <<>> =>
                        player.tree[path].times_seen
                            = 1 + times_seen_of_children(player.tree, path)
             /\ player_op.op = "new" =>
                    player.tree[<<>>].times_seen = times_seen_of_children(player.tree, <<>>))
    /\ [][LET excess(p) == p.tree[<<>>].times_seen - times_seen_of_children(p.tree, <<>>)
          IN  player.cls = "MonteCarloTreeSearch" =>
                  /\ (player_op'.op = "get_move" /\ ~is_terminal(player.game_state)) =>
                         excess(player') = excess(player)
                  /\ (/\ player_op'.op = "update_moves"
                      /\ player_op'.raised = "none"
                      /\ ~is_terminal(player'.game_state)) =>
                         IF player'.tree[<<>>].times_seen = 0
                         THEN excess(player') = 0
                         ELSE excess(player') = 1]_vars

\* a search that went through a child of the made root and expanded it
ExpandedBelowMadeRoot ==
    /\ player.cls = "MonteCarloTreeSearch"
    /\ player_op.op = "get_move"
    /\ player.game_state.move_history = <<>>
    /\ player.tree[<<>>].times_seen = 3
    /\ times_seen_of_children(player.tree, <<>>) = 3
    /\ \E path \in DOMAIN player.tree : Len(path) = 2

\* C13: every node of the search tree with times_seen > 0 has a mean score
\* total_score / times_seen in [0, 1] (total_score is kept in hundredths),
\* and every child attached to a node has times_seen > 0.
MeanScoreInUnitInterval ==
    player.cls = "MonteCarloTreeSearch" =>
        \A path \in DOMAIN player.tree :
            LET node == player.tree[path]
            IN  /\ node.times_seen > 0 =>
                       /\ 0 <= node.total_score
                       /\ node.total_score <= 100 * node.times_seen
                /\ \A action \in Range(node.action_child) :
                       /\ Append(path, action) \in DOMAIN player.tree
                       /\ player.tree[Append(path, action)].times_seen > 0

\* a root seen three times whose mean score is strictly between 0 and 1,
\* with a child that lost and a child that won all its simulations
MeanScoreStrictlyInside ==
    /\ player.cls = "MonteCarloTreeSearch"
    /\ player_op.op = "get_move"
    /\ player.tree[<<>>].times_seen = 3
    /\ player.tree[<<>>].total_score \in 1..299
    /\ \E a, b \in Range(player.tree[<<>>].action_child) :
           /\ player.tree[<<a>>].total_score = 0
           /\ player.tree[<<b>>].total_score = 100 * player.tree[<<b>>].times_seen

\* C21: move selection is deterministic given the seed.  The seed fixes
\* every random draw, so of two runs with one seed the one whose alarm
\* comes later repeats the searches of the other and then searches on; the
\* two get_move calls return the same action.  (Random draws nothing before
\* it fails.)
SeededMoveSelectionIsDeterministic ==
    (/\ player.cls \in {"Random", "MonteCarloTreeSearch"}
     /\ player.cls = "MonteCarloTreeSearch" => player.tree[<<>>].times_seen < MaxSeen) =>
        \A order \in {"fwd", "rev"} :
            \A sooner \in (IF player.cls = "Random" THEN get_move(player)
                           ELSE MonteCarloTreeSearch_get_move(player, order)) :
                \A later \in (IF player.cls = "Random" THEN get_move(player)
                              ELSE MonteCarloTreeSearch_get_move(sooner.self, order)) :
                    (sooner.raised = "none" /\ later.raised = "none") =>
                        sooner.value = later.value

\* a get_move that returned the action of the only child seen, while one
\* more search with the same draws sees a child of greater mean score
OneMoreSearchChangesTheMove ==
    /\ player.cls = "MonteCarloTreeSearch"
    /\ player_op.op = "get_move"
    /\ player_op.raised = "none"
    /\ player.tree[<<>>].times_seen = 1
    /\ \E order \in {"fwd", "rev"} :
           \E later \in MonteCarloTreeSearch_get_move(player, order) :
               later.raised = "none" /\ later.value # player_op.value

\* C22: Random.get_move returns an action that is legal for the player's
\* role in its current state, and every legal action of that state is a
\* possible result.
RandomReturnsAnyLegalAction ==
    /\ [](player.cls = "Random" =>
             \A action \in Range(legal_actions(player.game_state, player.role)) :
                 \E result \in get_move(player) :
                     result.raised = "none" /\ result.value = action)
    /\ [][(player_op'.op = "get_move" /\ player.cls = "Random") =>
              /\ player_op'.raised = "none"
              /\ player_op'.value
                     \in Range(legal_actions(player.game_state, player.role))]_vars

\* get_move of a Random player in a state with three legal actions, after
\* a joint move
RandomGetMoveRaised ==
    /\ player.cls = "Random"
    /\ player_op.op = "get_move"
    /\ player_op.raised = "TypeError"
    /\ turn_number(player.game_state) = 1
    /\ Len(legal_actions(player.game_state, player.role)) = 3

\* C23: in a single-player game CompulsiveDeliberation.get_move returns
\* the first move of a move sequence from the current state that reaches
\* the best terminal utility reachable (max_utility when a sequence reaches
\* it).
CompulsiveDeliberationFindsBestSequence ==
    [][(/\ player_op'.op = "get_move"
        /\ player.cls = "CompulsiveDeliberation"
        /\ ~is_terminal(player.game_state)) =>
           LET best(utilities) == CHOOSE u \in utilities : \A v \in utilities : v <= u
               move == [r \in {player.role} |-> player_op'.value]
           IN  /\ player_op'.raised = "none"
               /\ player_op'.value
                      \in Range(legal_actions(player.game_state, player.role))
               /\ best(play_random_game(apply_moves(player.game_state, move),
                                        player.role))
                      = best(play_random_game(player.game_state, player.role))]_vars

\* get_move of a CompulsiveDeliberation player from which the winning
\* sequence is still reachable
DeliberationRaisedWithWinReachable ==
    /\ player.cls = "CompulsiveDeliberation"
    /\ player_op.op = "get_move"
    /\ player_op.raised = "TypeError"
    /\ turn_number(player.game_state) = 1
    /\ max_utility \in play_random_game(player.game_state, player.role)

\* C24: with max_depth = -1, BoundedDepth.get_move deepens inside one
\* timer scope and returns a move: the one chosen by the last depth whose
\* search completed before TimeUp, a legal action of the own role, or the
\* first legal action when no depth completed; when it returns the timer
\* scope is closed and max_depth is -1 again for the next turn.
IterativeDeepeningReturnsLastCompletedMove ==
    [][(/\ player_op'.op = "get_move"
        /\ player.cls \in {"BoundedDepth", "MonteCarlo"}
        /\ player.max_depth = -1
        /\ ~is_terminal(player.game_state)) =>
           /\ player_op'.raised = "none"
           /\ player_op'.value
                  \in Range(legal_actions(player.game_state, player.role))
           /\ player'.max_depth = -1
           /\ player'.timer = "none"]_vars

\* an iterative-deepening get_move that failed at depth 1, before TimeUp,
\* and left max_depth at 1
DeepeningFailedAtDepthOne ==
    /\ player.cls = "BoundedDepth"
    /\ player_op.op = "get_move"
    /\ player_op.raised = "TypeError"
    /\ player.max_depth = 1
    /\ player.timer = "exited"
    /\ turn_number(player.game_state) = 1

\* C26: with a fixed max_depth d >= 0, BoundedDepth.get_move returns a
\* move of the own role, the one with the best value of the game tree cut
\* at depth d, and leaves max_depth as it was.
FixedDepthReturnsBestMove ==
    [][(/\ player_op'.op = "get_move"
        /\ player.cls \in {"BoundedDepth", "MonteCarlo"}
        /\ player.max_depth >= 0
        /\ ~is_terminal(player.game_state)) =>
           /\ player_op'.raised = "none"
           /\ player_op'.value
                  \in Range(legal_actions(player.game_state, player.role))
           /\ player'.max_depth = player.max_depth]_vars

\* get_move of a player constructed with max_depth 1, which never had a
\* timer
FixedDepthRaisedWithoutTimer ==
    /\ player.cls = "BoundedDepth"
    /\ player_op.op = "get_move"
    /\ player_op.raised = "AttributeError"
    /\ player.max_depth = 1
    /\ player.timer = "none"
    /\ turn_number(player.game_state) = 1

\* C25: the root of the search tree always holds the player's game state,
\* the player's own role and no pending partial move.  After update_moves
\* the tree is the subtree below the executed actions, taken role by role
\* from the root's role on, when all of these edges exist; as soon as one
\* is missing it is a single new root for the new state, never seen and
\* with every legal action unseen.
RootFollowsExecutedMoves ==
    /\ [](player.cls = "MonteCarloTreeSearch" =>
             LET root == player.tree[<<>>]
             IN  /\ root.game_state.game_state = player.game_state
                 /\ roles(player.game_state.game)[root.role_index] = player.role
                 /\ root.game_state.moves = <<>>)
    /\ [][(/\ player_op'.op = "update_moves"
           /\ player_op'.raised = "none"
           /\ player.cls = "MonteCarloTreeSearch") =>
              LET rs == roles(player.game_state.game)
                  own == CHOOSE i \in DOMAIN rs : rs[i] = player.role
                  executed == [k \in 1..Len(rs) |->
                                  player_op'.arg[((own + k - 2) % Len(rs)) + 1]]
                  root == player'.tree[<<>>]
              IN  IF \A k \in 1..Len(rs) : SubSeq(executed, 1, k) \in DOMAIN player.tree
                  THEN /\ \A path \in DOMAIN player'.tree :
                              /\ executed \o path \in DOMAIN player.tree
                              /\ player'.tree[path] = player.tree[executed \o path]
                       /\ \A path \in DOMAIN player.tree :
                              (Len(path) >= Len(rs) /\ SubSeq(path, 1, Len(rs)) = executed) =>
                                  SubSeq(path, Len(rs) + 1, Len(path)) \in DOMAIN player'.tree
                  ELSE /\ DOMAIN player'.tree = {<<>>}
                       /\ root.action_child = <<>>
                       /\ root.times_seen = 0
                       /\ root.total_score = 0
                       /\ Range(root.unseen_actions)
                              = Range(legal_actions(player'.game_state, player.role))]_vars

\* update_moves of a two-role game moved the root two levels down, to a
\* node the searches had seen
RootMovedToSeenNode ==
    /\ player.cls = "MonteCarloTreeSearch"
    /\ player.game_state.game = SampleTree
    /\ player_op.op = "update_moves"
    /\ player_op.raised = "none"
    /\ player.tree[<<>>].times_seen > 0

PartialMovesCompleteEveryPly ==
    player.cls = "MonteCarloTreeSearch" =>
        \A path \in DOMAIN player.tree :
            LET node == player.tree[path]
                rs == roles(node.game_state.game_state.game)
                role == rs[node.role_index]
                pending == node.game_state.moves
            IN  /\ role \notin DOMAIN pending
                /\ Cardinality(DOMAIN pending) = Len(path) % Len(rs)
                /\ \A action \in Range(node.action_child) :
                       LET child == player.tree[Append(path, action)]
                           joint == [r \in DOMAIN pending \cup {role} |->
                                        IF r = role THEN action ELSE pending[r]]
                       IN  /\ child.role_index = (node.role_index % Len(rs)) + 1
                           /\ IF DOMAIN joint = Range(rs)
                              THEN /\ child.game_state.game_state
                                          = apply_moves(node.game_state.game_state, joint)
                                   /\ DOMAIN child.game_state.moves = {}
                              ELSE /\ child.game_state.game_state
                                          = node.game_state.game_state
                                   /\ child.game_state.moves = joint

\* a tree of the two-role game two levels deep: white's edge leaves the
\* state as it is and is pending, black's edge completes the joint move
TreeSpansOnePly ==
    /\ player.cls = "MonteCarloTreeSearch"
    /\ \E path \in DOMAIN player.tree :
           /\ Len(path) = 2
           /\ player.tree[SubSeq(path, 1, 1)].game_state.game_state
                  = player.tree[<<>>].game_state.game_state
           /\ DOMAIN player.tree[SubSeq(path, 1, 1)].game_state.moves = {"white"}
           /\ player.tree[path].game_state.game_state
                  = apply_moves(player.game_state,
                                [r \in {"white", "black"} |->
                                    IF r = "white" THEN path[1] ELSE path[2]])
           /\ DOMAIN player.tree[path].game_state.moves = {}

\* C30: a search that TimeUp ends, in the selection or in the random game,
\* leaves the tree as it was: no child attached, no unseen action removed,
\* no total_score or times_seen changed.  So at every node, after every
\* operation, the attached children and the unseen actions are disjoint,
\* hold no action twice and together are the legal actions of the node's
\* role.
TimeUpLeavesTreeUnchanged ==
    player.cls = "MonteCarloTreeSearch" =>
        /\ \A order \in {"fwd", "rev"} :
               \A search \in run_search(player, order) :
                   search.raised = "TimeUp" => search.tree = player.tree
        /\ \A path \in DOMAIN player.tree :
               LET node == player.tree[path]
                   attached == node.action_child
                   unseen == node.unseen_actions
               IN  /\ Range(attached) \cap Range(unseen) = {}
                   /\ Cardinality(Range(attached)) = Len(attached)
                   /\ Cardinality(Range(unseen)) = Len(unseen)
                   /\ Range(attached) \cup Range(unseen)
                          = Range(legal_actions(
                                      node.game_state.game_state,
                                      roles(node.game_state.game_state.game)[node.role_index]))
                   /\ \A action \in Range(attached) :
                          Append(path, action) \in DOMAIN player.tree

\* get_move ended by TimeUp with the root partly expanded, and the next
\* search can be ended by TimeUp both in the selection and in the game
TimeUpWithRootPartlyExpanded ==
    /\ player.cls = "MonteCarloTreeSearch"
    /\ player_op.op = "get_move"
    /\ player_op.raised = "none"
    /\ player.tree[<<>>].action_child # <<>>
    /\ player.tree[<<>>].unseen_actions # <<>>
    /\ \E search \in run_search(player, "fwd") : search.raised = "TimeUp"

(***************************************************************************)
(* AlarmContextManager (ggp/players.py).  sigalrm is the handler installed *)
(* for SIGALRM: 0 the default, -1 a handler of the embedding program, m    *)
(* the alarm_handler of manager m.  alarm is the time left on the process  *)
(* alarm, 0 when none is scheduled.  scopes is the stack of with-blocks    *)
(* that have been entered and not left, each with the handler found on     *)
(* entry.                                                                  *)
(***************************************************************************)
\* AlarmContextManager.__init__, as timed_init and timed_turn call it
NewManager(seconds) ==
    /\ Len(managers) < MaxManagers
    /\ managers' = Append(managers, [seconds |-> seconds, time_up |-> "unset",
                                     old_alarm_handler |-> "unset"])
    /\ alarm_event' = "new"
    /\ UNCHANGED <<alarm_active, sigalrm, alarm, scopes>>

AlarmContextManager_enter_unchecked(m) ==
    /\ managers' = [managers EXCEPT ![m].time_up = FALSE,
                                    ![m].old_alarm_handler = sigalrm]
    /\ sigalrm' = m
    /\ alarm_active' = TRUE
    /\ alarm' = managers[m].seconds
    /\ scopes' = Cons([manager |-> m, previous |-> sigalrm], scopes)
    /\ alarm_event' = "enter"

\* AlarmContextManager.__enter__
AlarmContextManager_enter(m) ==
    IF alarm_active
    THEN /\ alarm_event' = "AssertionError"
         /\ UNCHANGED <<alarm_active, sigalrm, alarm, managers, scopes>>
    ELSE /\ managers' = [managers EXCEPT ![m].time_up = FALSE,
                                         ![m].old_alarm_handler = sigalrm]
         /\ sigalrm' = m
         /\ alarm_active' = TRUE
         /\ alarm' = managers[m].seconds
         /\ scopes' = Cons([manager |-> m, previous |-> sigalrm], scopes)
         /\ alarm_event' = "enter"

\* AlarmContextManager.__exit__ of the innermost with-block, which is left
\* normally (exception "none") or by an exception; __exit__ returns None,
\* so the exception goes on
AlarmContextManager_exit(exception) ==
    /\ scopes # <<>>
    /\ alarm' = 0
    /\ alarm_active' = FALSE
    /\ sigalrm' = managers[Head(scopes).manager].old_alarm_handler
    /\ managers' = [managers EXCEPT ![Head(scopes).manager].time_up = "unset"]
    /\ scopes' = Tail(scopes)
    /\ alarm_event' = IF exception = "none" THEN "exit" ELSE "exit by exception"

\* a second passes; when the alarm runs out SIGALRM is delivered to the
\* installed handler: alarm_handler sets time_up
Tick ==
    /\ alarm > 0
    /\ alarm' = alarm - 1
    /\ IF alarm = 1 /\ sigalrm \in DOMAIN managers
       THEN /\ managers' = [managers EXCEPT ![sigalrm].time_up = TRUE]
            /\ alarm_event' = "alarm_handler"
       ELSE /\ managers' = managers
            /\ alarm_event' = IF alarm = 1 THEN "SIGALRM" ELSE "tick"
    /\ UNCHANGED <<alarm_active, sigalrm, scopes>>

\* AlarmContextManager.check inside the with-block
Check ==
    /\ scopes # <<>>
    /\ alarm_event' = IF managers[Head(scopes).manager].time_up = TRUE
                      THEN "TimeUp" ELSE "check"
    /\ UNCHANGED <<alarm_active, sigalrm, alarm, managers, scopes>>

AlarmInit ==
    /\ alarm_active = FALSE
    /\ sigalrm \in {0, -1}
    /\ alarm = 0
    /\ managers = <<>>
    /\ scopes = <<>>
    /\ alarm_event = "none"

InitAlarm == AlarmInit /\ StateIdle /\ SearchIdle /\ ServerIdle /\ PlayerIdle /\ GdlIdle

NextAlarm ==
    \/ /\ \E seconds \in 0..MaxSeconds : NewManager(seconds)
       /\ UNCHANGED <<state_vars, search_vars, server_vars, player_vars, gdl_vars>>
    \/ /\ \E m \in DOMAIN managers : AlarmContextManager_enter(m)
       /\ UNCHANGED <<state_vars, search_vars, server_vars, player_vars, gdl_vars>>
    \/ /\ \E exception \in {"none", "TimeUp", "AssertionError"} :
              AlarmContextManager_exit(exception)
       /\ UNCHANGED <<state_vars, search_vars, server_vars, player_vars, gdl_vars>>
    \/ Tick /\ UNCHANGED <<state_vars, search_vars, server_vars, player_vars, gdl_vars>>
    \/ Check /\ UNCHANGED <<state_vars, search_vars, server_vars, player_vars, gdl_vars>>

SpecAlarm == InitAlarm /\ [][NextAlarm]_vars

\* C10: at most one timer scope is active at any time and alarm_active says
\* whether one is; entering while one is active fails the assertion and
\* changes nothing; entering otherwise sets the alarm to the manager's
\* seconds, installs its handler and sets alarm_active; leaving the scope,
\* normally or by an exception, cancels the alarm, clears alarm_active and
\* restores the SIGALRM handler found on entry.
AtMostOneTimerScope ==
    /\ [](Len(scopes) <= 1 /\ (alarm_active <=> scopes # <<>>))
    /\ [](~alarm_active => alarm = 0 /\ sigalrm \in {0, -1})
    /\ [][/\ alarm_event' = "AssertionError" =>
                 alarm_active /\ UNCHANGED <<alarm_active, sigalrm, alarm, scopes>>
          /\ alarm_event' = "enter" =>
                 /\ ~alarm_active /\ alarm_active'
                 /\ Len(scopes') = 1
                 /\ alarm' = managers[Head(scopes').manager].seconds
                 /\ sigalrm' = Head(scopes').manager
          /\ alarm_event' \in {"exit", "exit by exception"} =>
                 /\ alarm_active /\ ~alarm_active'
                 /\ alarm' = 0
                 /\ sigalrm' = Head(scopes).previous
                 /\ scopes' = <<>>]_vars

NestedEnterRefused ==
    /\ alarm_event = "AssertionError"
    /\ alarm_active
    /\ Len(scopes) = 1
    /\ alarm > 0

(***************************************************************************)
(* A turn of MonteCarloTreeSearch.get_move under its timer (ggp/players.py)*)
(* player_op.op is the place the call has reached: "timed_turn" the        *)
(* manager is made, "enter" the with-block is entered, "check" the         *)
(* timer.check() of the loop has passed, "run_search" a search has         *)
(* returned, "TimeUp" the exception has been caught, "exit" the with-block *)
(* is left, "get_move" the call is over.  A tree is followed until its     *)
(* root has been seen MaxSeen times; the searches after that are passes of *)
(* the loop that leave the recorded tree as it is.                         *)
(***************************************************************************)
\* the play clocks of a match, in seconds; timed_turn(buffer_seconds=3)
\* hands play_clock.seconds - 3 to the manager
PlayClocks == 3..(3 + MaxSeconds)

in_turn == player_op.op \in {"timed_turn", "enter", "check", "run_search", "TimeUp", "exit"}

at(op, play_clock) == [op |-> op, arg |-> play_clock, raised |-> "none", value |-> ""]

\* self.timed_turn(buffer_seconds=3)
timed_turn(play_clock) ==
    /\ player.cls = "MonteCarloTreeSearch"
    /\ ~in_turn
    /\ NewManager(play_clock - 3)
    /\ player_op' = at("timed_turn", play_clock)
    /\ UNCHANGED player

\* with ... as timer: __enter__ of the manager of this turn
with_timer ==
    /\ player_op.op = "timed_turn"
    /\ AlarmContextManager_enter(Len(managers))
    /\ player_op' = at("enter", player_op.arg)
    /\ UNCHANGED player

\* timer.check() at the head of the loop; TimeUp goes to the except clause
timer_check ==
    /\ player_op.op \in {"enter", "run_search"}
    /\ Check
    /\ player_op' = at(IF managers[Head(scopes).manager].time_up = TRUE
                       THEN "TimeUp" ELSE "check", player_op.arg)
    /\ UNCHANGED player

\* self.run_search(timer): the search returns, or a timer.check() within it
\* finds time_up set and raises TimeUp
loop_run_search ==
    /\ player_op.op = "check"
    /\ \E order \in {"fwd", "rev"} : \E found \in run_search(player, order) :
           /\ found.raised = "TimeUp" => managers[Head(scopes).manager].time_up = TRUE
           /\ player' = IF player.tree[<<>>].times_seen < MaxSeen
                        THEN [player EXCEPT !.tree = found.tree] ELSE player
           /\ player_op' = at(IF found.raised = "TimeUp" THEN "TimeUp" ELSE "run_search",
                              player_op.arg)
    /\ UNCHANGED alarm_vars

\* except TimeUp: pass, and the with-block is left
leave_timer ==
    /\ player_op.op = "TimeUp"
    /\ AlarmContextManager_exit("none")
    /\ player_op' = at("exit", player_op.arg)
    /\ UNCHANGED player

\* return max(...)[0] over the root's children that have been seen
choose_move ==
    /\ player_op.op = "exit"
    /\ player_op' = [Called("get_move", <<>>, max_mean_action(player, player.tree))
                         EXCEPT !.arg = player_op.arg]
    /\ UNCHANGED <<player, alarm_vars>>

\* time passes during the turn
turn_tick ==
    /\ Tick
    /\ UNCHANGED player_vars

InitTurn ==
    /\ PlayerInit
    /\ player.cls = "MonteCarloTreeSearch"
    /\ AlarmIdle
    /\ StateIdle /\ SearchIdle /\ ServerIdle /\ GdlIdle

NextTurn ==
    \/ /\ \E play_clock \in PlayClocks : timed_turn(play_clock)
       /\ UNCHANGED <<state_vars, search_vars, server_vars, gdl_vars>>
    \/ with_timer /\ UNCHANGED <<state_vars, search_vars, server_vars, gdl_vars>>
    \/ timer_check /\ UNCHANGED <<state_vars, search_vars, server_vars, gdl_vars>>
    \/ loop_run_search /\ UNCHANGED <<state_vars, search_vars, server_vars, gdl_vars>>
    \/ leave_timer /\ UNCHANGED <<state_vars, search_vars, server_vars, gdl_vars>>
    \/ choose_move /\ UNCHANGED <<state_vars, search_vars, server_vars, gdl_vars>>
    \/ turn_tick /\ UNCHANGED <<state_vars, search_vars, server_vars, gdl_vars>>

\* the interpreter goes on with a call that has begun, and the clock of the
\* process alarm runs; a new call of get_move is the game manager's to make
TurnFairness ==
    /\ WF_vars(with_timer /\ UNCHANGED <<state_vars, search_vars, server_vars, gdl_vars>>)
    /\ WF_vars(timer_check /\ UNCHANGED <<state_vars, search_vars, server_vars, gdl_vars>>)
    /\ []<>(player_op.op # "check")
    /\ WF_vars(leave_timer /\ UNCHANGED <<state_vars, search_vars, server_vars, gdl_vars>>)
    /\ WF_vars(choose_move /\ UNCHANGED <<state_vars, search_vars, server_vars, gdl_vars>>)
    /\ WF_vars(turn_tick /\ UNCHANGED <<state_vars, search_vars, server_vars, gdl_vars>>)

SpecTurn == InitTurn /\ [][NextTurn]_vars /\ TurnFairness

\* the first of the root's seen children whose mean score no other exceeds
best_seen_action(tree) ==
    LET seen == SelectSeq(tree[<<>>].action_child, LAMBDA a : tree[<<a>>].times_seen > 0)
        exceeds(a, b) == tree[<<a>>].total_score * tree[<<b>>].times_seen
                             > tree[<<b>>].total_score * tree[<<a>>].times_seen
    IN  {seen[i] : i \in {i \in DOMAIN seen :
                             /\ \A j \in DOMAIN seen : ~exceeds(seen[j], seen[i])
                             /\ \A j \in 1..(i - 1) : exceeds(seen[i], seen[j])}}

\* C29: for every positive play_clock a call of MonteCarloTreeSearch.get_move
\* that has begun eventually returns an action: the loop ends with TimeUp,
\* and the action returned is the one of the root's children with a
\* positive visit count that has the highest mean score.
GetMoveEventuallyReturnsBestSeenAction ==
    (player_op.op = "timed_turn" /\ player_op.arg > 0)
        ~> (/\ player_op.op = "get_move"
            /\ player_op.raised = "none"
            /\ alarm_event = "exit"
            /\ player_op.value \in best_seen_action(player.tree))

\* C29, as far as it holds: with a play_clock of more than 3 seconds the
\* alarm is set, the loop ends with TimeUp and the call ends; an action it
\* returns is the seen child of the root with the highest mean score.
GetMoveEndsWhenAlarmIsSet ==
    /\ (player_op.op = "timed_turn" /\ player_op.arg > 3)
           ~> (player_op.op = "get_move" /\ alarm_event = "exit")
    /\ [](player_op.op = "get_move" /\ player_op.raised = "none"
              => player_op.value \in best_seen_action(player.tree))

SearchLoopGoesOnWithoutAlarm ==
    /\ player_op.op = "run_search"
    /\ player_op.arg = 3
    /\ alarm_active
    /\ alarm = 0
    /\ managers[Head(scopes).manager].time_up = FALSE
    /\ player.tree[<<>>].times_seen >= MaxSeen

(***************************************************************************)
(* Prefix GDL and Prolog terms (ggp/languages/prefixgdl.py).  A statement  *)
(* is the sequence of tokens the grammar reads: "(", ")", a word, or a     *)
(* variable (a "?" with a word right behind it).  A Prolog term is an      *)
(* atom, a variable or a compound term of a name and arguments; a fresh    *)
(* variable is known by the number of its creation within the statement.   *)
(***************************************************************************)

\* ' '.join(parts): the texts of the parts one after the other
RECURSIVE join_texts(_)
join_texts(parts) ==
    IF parts = <<>> THEN <<>> ELSE Head(parts) \o join_texts(Tail(parts))

\* PrefixGdlToProlog._compound_term_action: "<=" becomes ":-" over the head
\* and the right-nested conjunction of the body
compound_term_action(name, args) ==
    LET RECURSIVE conj(_)
        \* reduce(lambda b, a: a & b, reversed(body))
        conj(body) ==
            IF Len(body) = 1 THEN body[1]
            ELSE [kind |-> "compound", name |-> ",",
                  args |-> <<body[1], conj(Tail(body))>>]
    IN  IF name = "<="
        THEN IF args = <<>>
             THEN [raised |-> "IndexError", term |-> <<>>]
             ELSE IF Len(args) = 1
             THEN [raised |-> "TypeError", term |-> <<>>]
             ELSE [raised |-> "none",
                   term |-> [kind |-> "compound", name |-> ":-",
                             args |-> <<args[1], conj(Tail(args))>>]]
        ELSE [raised |-> "none",
              term |-> [kind |-> "compound", name |-> name, args |-> args]]

RECURSIVE parse_term(_, _)
RECURSIVE parse_terms(_, _, _)

\* ZeroOrMore(term) with the parse actions of PrefixGdlToProlog: the terms
\* up to the closing parenthesis
parse_terms(tokens, variables, terms) ==
    IF tokens = <<>> \/ Head(tokens).kind = "rpar"
    THEN [raised |-> "none", term |-> terms, rest |-> tokens,
          variables |-> variables]
    ELSE CHOOSE result \in
            {IF one.raised # "none" THEN one
             ELSE parse_terms(one.rest, one.variables,
                              Append(terms, one.term))
             : one \in {parse_term(tokens, variables)}} : TRUE

\* term = compound_term | variable | atom, with the parse actions
\* _atom_action, variable_action and _compound_term_action
parse_term(tokens, variables) ==
    LET fail(e) == [raised |-> e, term |-> <<>>, rest |-> tokens,
                    variables |-> variables]
        tok == Head(tokens)
        \* predicate_name is any word, one that starts with "?" too
        predicate_name == IF tokens[2].kind = "variable"
                          THEN "?" \o tokens[2].text ELSE tokens[2].text
    IN  IF tokens = <<>> THEN fail("ParseException")
        ELSE IF tok.kind = "word"
        THEN [raised |-> "none",
              term |-> [kind |-> "atom", name |-> tok.text, args |-> <<>>],
              rest |-> Tail(tokens), variables |-> variables]
        ELSE IF tok.kind = "variable"
        THEN LET known == {k \in DOMAIN variables : variables[k] = tok.text}
                 k == IF known = {} THEN Len(variables) + 1
                      ELSE CHOOSE i \in known : TRUE
             IN  [raised |-> "none",
                  term |-> [kind |-> "variable", name |-> "_" \o ToString(k),
                            args |-> <<>>],
                  rest |-> Tail(tokens),
                  variables |-> IF known = {}
                                THEN Append(variables, tok.text)
                                ELSE variables]
        ELSE IF tok.kind = "lpar"
        THEN IF Len(tokens) < 2 \/ tokens[2].kind \notin {"word", "variable"}
             THEN fail("ParseException")
             ELSE CHOOSE result \in
                    {IF args.raised # "none" THEN fail(args.raised)
                     ELSE IF args.rest = <<>> THEN fail("ParseException")
                     ELSE CHOOSE made_result \in
                            {IF made.raised # "none" THEN fail(made.raised)
                             ELSE [raised |-> "none", term |-> made.term,
                                   rest |-> Tail(args.rest),
                                   variables |-> args.variables]
                             : made \in {compound_term_action(
                                             predicate_name, args.term)}}
                            : TRUE
                     : args \in {parse_terms(SubSeq(tokens, 3, Len(tokens)),
                                             variables, <<>>)}} : TRUE
        ELSE fail("ParseException")

\* prefix_gdl_statement_to_prolog: one statement and nothing after it; the
\* variables of a statement are its own
prefix_gdl_statement_to_prolog(gdl_statement) ==
    CHOOSE result \in
        {IF parsed.raised # "none"
         THEN [raised |-> parsed.raised, term |-> <<>>]
         ELSE IF parsed.rest # <<>>
         THEN [raised |-> "ParseException", term |-> <<>>]
         ELSE [raised |-> "none", term |-> parsed.term]
         : parsed \in {parse_term(gdl_statement, <<>>)}} : TRUE

\* prolog_term_to_prefix_gdl: the arguments are translated first, and a
\* term named ":-" is not translated at all
RECURSIVE prolog_term_to_prefix_gdl(_)
prolog_term_to_prefix_gdl(term) ==
    IF term.kind = "compound"
    THEN CHOOSE result \in
            {IF \E i \in DOMAIN args : args[i].raised # "none"
             THEN [raised |-> "NotImplementedError", text |-> <<>>]
             ELSE IF term.name = ":-"
             THEN [raised |-> "NotImplementedError", text |-> <<>>]
             ELSE [raised |-> "none",
                   text |-> <<[kind |-> "lpar", text |-> "("],
                              [kind |-> "word", text |-> term.name]>>
                            \o join_texts([i \in DOMAIN args |-> args[i].text])
                            \o <<[kind |-> "rpar", text |-> ")"]>>]
             : args \in {[i \in DOMAIN term.args |->
                             prolog_term_to_prefix_gdl(term.args[i])]}}
            : TRUE
    ELSE IF term.kind = "variable"
    THEN [raised |-> "none",
          text |-> <<[kind |-> "variable", text |-> term.name]>>]
    ELSE [raised |-> "none",
          text |-> <<[kind |-> "word", text |-> term.name]>>]

\* The statements translated: atoms, variables, compound terms of up to
\* MaxArgs arguments (nested ones among them), rules of up to MaxBody body
\* literals, and texts that are no statement.
Statements ==
    LET L == [kind |-> "lpar", text |-> "("]
        R == [kind |-> "rpar", text |-> ")"]
        W(t) == [kind |-> "word", text |-> t]
        V(t) == [kind |-> "variable", text |-> t]
        UpTo(S, n) == UNION {[1..k -> S] : k \in 0..n}
        simple == {<<W("foo")>>, <<W("2")>>, <<V("x")>>, <<V("y")>>,
                   <<L, W("bar"), R>>, <<L, W("p"), V("y"), W("2"), R>>}
        heads == {<<W("foo")>>, <<L, W("p"), V("x"), V("y"), R>>}
        literals == {<<W("1")>>, <<L, W("q"), V("x"), R>>,
                     <<L, W("not"), L, W("q"), V("y"), R, R>>}
    IN  simple
        \cup {<<L, W("foo")>> \o join_texts(args) \o <<R>>
              : args \in UpTo(simple, MaxArgs)}
        \cup {<<L, W("<=")>> \o head \o join_texts(body) \o <<R>>
              : head \in heads, body \in UpTo(literals, MaxBody)}
        \cup {<<L, W("foo"), L, W("<="), W("a"), W("b"), R, R>>,
              <<L, W("<="), R>>, <<L>>, <<R>>, <<L, R>>,
              <<W("foo"), W("bar")>>, <<L, V("x"), W("a"), R>>, <<>>}

GdlInit ==
    \E statement \in Statements :
        gdl = [stage |-> "text", statement |-> statement]

\* term = prefix_gdl_statement_to_prolog(statement)
ToProlog ==
    /\ gdl.stage = "text"
    /\ \E out \in {prefix_gdl_statement_to_prolog(gdl.statement)} :
         gdl' = [stage |-> "term", statement |-> gdl.statement,
                 raised |-> out.raised, term |-> out.term]

\* text = prolog_term_to_prefix_gdl(term)
ToPrefixGdl ==
    /\ gdl.stage = "term"
    /\ gdl.raised = "none"
    /\ \E out \in {prolog_term_to_prefix_gdl(gdl.term)} :
         gdl' = [stage |-> "printed", statement |-> gdl.statement,
                 raised |-> out.raised, term |-> gdl.term,
                 text |-> out.text]

\* again = prefix_gdl_statement_to_prolog(text)
BackToProlog ==
    /\ gdl.stage = "printed"
    /\ gdl.raised = "none"
    /\ \E out \in {prefix_gdl_statement_to_prolog(gdl.text)} :
         gdl' = [stage |-> "again", statement |-> gdl.statement,
                 raised |-> out.raised, term |-> gdl.term,
                 text |-> gdl.text, again |-> out.term]

InitGdl ==
    GdlInit /\ StateIdle /\ SearchIdle /\ ServerIdle /\ PlayerIdle /\ AlarmIdle

NextGdl ==
    \/ ToProlog
       /\ UNCHANGED <<state_vars, search_vars, server_vars, player_vars, alarm_vars>>
    \/ ToPrefixGdl
       /\ UNCHANGED <<state_vars, search_vars, server_vars, player_vars, alarm_vars>>
    \/ BackToProlog
       /\ UNCHANGED <<state_vars, search_vars, server_vars, player_vars, alarm_vars>>

SpecGdl == InitGdl /\ [][NextGdl]_vars

\* C18: a parsed statement that is translated back to prefix GDL and parsed
\* again gives an equivalent term, for atoms, variables, compound terms and
\* rules alike, and a rule H :- (B1, (B2, ... Bn)) is written back as
\* (<= H B1 ... Bn).
PrintedStatementParsesBack ==
    /\ gdl.stage = "printed" => gdl.raised = "none"
    /\ gdl.stage = "again" => gdl.raised = "none" /\ gdl.again = gdl.term
    /\ gdl.stage \in {"printed", "again"} /\ gdl.term.name = ":-" =>
         /\ Len(gdl.text) > 2
         /\ gdl.text[1].kind = "lpar"
         /\ gdl.text[2] = [kind |-> "word", text |-> "<="]
         /\ Len(gdl.text) = Len(gdl.statement)

\* a rule of two body literals was parsed and its translation back raised
RuleNotTranslatedBack ==
    /\ gdl.stage = "printed"
    /\ gdl.raised = "NotImplementedError"
    /\ gdl.term.name = ":-"
    /\ gdl.term.args[2].name = ","
    /\ gdl.term.args[2].args[2].kind = "compound"

\* Without rules the round trip holds: what raises holds a ":-" term, and
\* every other term is read back as it was.
TermsWithoutRulesParseBack ==
    LET RECURSIVE has_rule(_)
        has_rule(term) ==
            \/ term.kind = "compound" /\ term.name = ":-"
            \/ \E i \in DOMAIN term.args : has_rule(term.args[i])
    IN  /\ gdl.stage = "printed" /\ gdl.raised # "none" => has_rule(gdl.term)
        /\ gdl.stage = "again" =>
             /\ gdl.raised = "none"
             /\ gdl.again = gdl.term
             /\ ~has_rule(gdl.term)

====
